---- MODULE Spec2Model ----
(***************************************************************************)
(* Model of the 3D-generation worker (worker/app): the Celery task         *)
(* generate_3d_model of worker.py, with the stages it calls                *)
(* (preprocess_images, generate_3d_from_multiple_images,                   *)
(* upload_model_to_supabase) and the webhook reporter update_job_status.   *)
(*                                                                         *)
(* Python values: an Optional value is None (the empty tuple) or Some(v).  *)
(* A dict is a function from its keys.  A product or variant id is kept as *)
(* the sequence of its "/"-separated segments, which is what split("/")    *)
(* returns.  A filesystem path is the sequence of its components.          *)
(*                                                                         *)
(* Spec follows one job through the task.  LoadSpec interleaves the        *)
(* statements of load_triposr_model for several threads of one process.    *)
(* AdapterSpec calls the reconstruction adapter, and PublishSpec the       *)
(* storage publisher, several times in a row as successive jobs do.        *)
(* StorageSpec mixes publishes and deletes of one model, CropSpec applies  *)
(* center_and_crop_image to one image, and WorkspaceSpec interleaves the   *)
(* workspace statements of several jobs running on one host.               *)
(***************************************************************************)
EXTENDS Integers, Sequences, FiniteSets, TLC

\* ------------------------------------------------------------------ bounds
\* Longest image_urls list a job is submitted with.
MaxUrls == 2
\* Most status reports of one execution whose delivery fails.
MaxDeliveryFailures == 1
\* Threads of one process that call load_triposr_model at once.
MaxThreads == 2
\* Publishes made one after another to the same key.
MaxPublishes == 2
\* Reconstruction calls made one after another in one process.
MaxCalls == 2
\* The jobs one host runs at the same time.
MaxWorkers == 2
\* The longest side, in pixels, of an image given to center_and_crop_image.
MaxSide == 160

\* ----------------------------------------------------------- Python values
None == <<>>
Some(v) == <<v>>
IsNone(o) == Len(o) = 0
\* The empty dict.
EmptyDict == [k \in {} |-> k]

\* Truthiness of an Optional[str], of an Optional list, of an Optional dict and
\* of an Optional id (kept as segments: "" splits into the one segment "").
TruthyStr(o) == ~IsNone(o) /\ o[1] # ""
TruthyList(o) == ~IsNone(o) /\ Len(o[1]) > 0
TruthyDict(o) == ~IsNone(o) /\ DOMAIN o[1] # {}
TruthyId(o) == ~IsNone(o) /\ o[1] # <<"">>

\* dict.get(key, default)
Get(d, key, default) == IF key \in DOMAIN d THEN d[key] ELSE default

\* An exception object: its class name and str(e).
Exc(type, msg) == [type |-> type, msg |-> msg]

\* ------------------------------------------------------------------ inputs
JobIds == {"job-1"}

UrlAt(i) == "https://x/img" \o ToString(i) \o ".png"
UrlLists == {[i \in 1..n |-> UrlAt(i)] : n \in 0..MaxUrls}

ProductGid == <<"gid:", "", "shopify", "Product", "123">>
VariantGid == <<"gid:", "", "shopify", "ProductVariant", "456">>

ShopArgs == {EmptyDict, [shop |-> Some("")], [shop |-> Some("acme.test")]}
ProductArgs ==
    {EmptyDict, [product_id |-> Some(<<"">>)], [product_id |-> Some(<<"123">>)],
     [product_id |-> Some(ProductGid)]}
HandleArgs == {EmptyDict, [product_handle |-> Some("test-product")]}
VariantArgs == {EmptyDict, [variant_id |-> Some(VariantGid)]}
ImageArgs ==
    {EmptyDict, [image_urls |-> None]} \cup {[image_urls |-> Some(l)] : l \in UrlLists}
CallerMetadata ==
    {EmptyDict,
     [productTitle |-> Some("Test Product")],
     [productTitle |-> Some("Test Product"), quality |-> Some("caller"),
      images_processed |-> 99, product_handle |-> Some("caller-handle")]}
MetadataArgs ==
    {EmptyDict, [metadata |-> None]} \cup {[metadata |-> Some(m)] : m \in CallerMetadata}
QualityArgs == {EmptyDict, [quality |-> Some("fast")], [quality |-> Some("ultra")]}

\* The arguments that name the asset, and the arguments that say what to build.
NamingArgs == {s @@ p @@ v : s \in ShopArgs, p \in ProductArgs, v \in VariantArgs}
ContentArgs ==
    {h @@ i @@ m @@ q :
        h \in HandleArgs, i \in ImageArgs, m \in MetadataArgs, q \in QualityArgs}

\* The keyword arguments a job is submitted with: every naming with the test
\* script's content (one image, the fast preset), and every content under the
\* test script's naming.
JobKwargs ==
    {n @@ [image_urls |-> Some(<<UrlAt(1)>>), quality |-> Some("fast")] :
        n \in NamingArgs}
    \cup {[shop |-> Some("acme.test"), product_id |-> Some(ProductGid)] @@ c :
            c \in ContentArgs}

\* What the bucket holds when a job starts: nothing, or the asset of an earlier
\* run for the same product.
InitialBuckets == {EmptyDict, [k \in {"acme.test/123.glb"} |-> "glb:old"]}

\* ------------------------------------------------------------------- state
VARIABLES
    job_id,              \* the task's job_id argument
    kwargs,              \* the task's **kwargs
    pc,                  \* position of the task in generate_3d_model
    temp_dir,            \* worker.py local temp_dir: None or Some(path)
    preprocessed_images, \* worker.py local: the list preprocess_images returned
    model_url,           \* worker.py local: None until the upload returned
    result_metadata,     \* worker.py local: None until built
    exc,                 \* the exception being handled or propagated, or None
    retval,              \* the value the task returned, or None
    fs,                  \* local filesystem: path -> "dir" or file content
    bucket,              \* storage bucket: key -> object content
    model_cache,         \* generator.py _model_cache
    trace,               \* status reports emitted and stage calls made, in order
    cleanup,             \* what the finally block did
    loaders,             \* the threads inside load_triposr_model: thread -> position
    workers              \* the jobs of one host running at once: worker -> its locals

vars == <<job_id, kwargs, pc, temp_dir, preprocessed_images, model_url,
          result_metadata, exc, retval, fs, bucket, model_cache, trace, cleanup,
          loaders, workers>>

\* worker.py 76-82: the job data read from kwargs.
shop == Get(kwargs, "shop", None)
product_id == Get(kwargs, "product_id", None)
product_handle == Get(kwargs, "product_handle", None)
variant_id == Get(kwargs, "variant_id", None)
image_urls == Get(kwargs, "image_urls", Some(<<>>))
metadata == Get(kwargs, "metadata", Some(EmptyDict))
quality == Get(kwargs, "quality", Some("balanced"))

\* ------------------------------------------------------------ trace helpers
IsReport(e) == e.kind = "report"
IsCall(e) == e.kind = "call"
Reports == SelectSeq(trace, IsReport)
Calls == SelectSeq(trace, IsCall)
CallEvent(name, ok) == [kind |-> "call", name |-> name, ok |-> ok]
Called(name) == \E i \in DOMAIN trace : IsCall(trace[i]) /\ trace[i].name = name
DeliveryFailures ==
    Cardinality({i \in DOMAIN trace : IsReport(trace[i]) /\ ~trace[i].delivered})

\* ------------------------------------------------- job_updater.py: reporter
\* What httpx.post and raise_for_status can do with one report.
PostOutcomes == {"ok", "http_error", "error"}

\* BuildPayload with the error message left out of the payload.
BuildPayloadWithoutError(jid, status, url, error_message, md, progress) ==
    [jobId |-> jid, status |-> status]
    @@ (IF TruthyStr(url) THEN [modelUrl |-> url[1]] ELSE EmptyDict)
    @@ (IF TruthyDict(md) THEN [metadata |-> md[1]] ELSE EmptyDict)
    @@ (IF ~IsNone(progress) THEN [progress |-> progress[1]] ELSE EmptyDict)

\* job_updater.py 34-49: the payload, a key being present only when its
\* argument is truthy (progress: when it is not None).
BuildPayload(jid, status, url, error_message, md, progress) ==
    [jobId |-> jid, status |-> status]
    @@ (IF TruthyStr(url) THEN [modelUrl |-> url[1]] ELSE EmptyDict)
    @@ (IF TruthyStr(error_message) THEN [errorMessage |-> error_message[1]]
        ELSE EmptyDict)
    @@ (IF TruthyDict(md) THEN [metadata |-> md[1]] ELSE EmptyDict)
    @@ (IF ~IsNone(progress) THEN [progress |-> progress[1]] ELSE EmptyDict)

\* PostResult with an except clause for httpx.HTTPError only: another exception
\* of the post leaves update_job_status.
PostResultHttpErrorOnly(outcome) ==
    [ret |-> (outcome = "ok"),
     raised |-> IF outcome = "error"
                THEN Some(Exc("TypeError", "Object is not JSON serializable"))
                ELSE None]

\* job_updater.py 51-66: the post is made; True is returned when the response
\* is a success, and both except clauses return False. Nothing is raised.
PostResult(outcome) == [ret |-> (outcome = "ok"), raised |-> None]

\* job_updater.py 11-66: one call, under the post outcome o. The caller goes on
\* to `next` whatever is returned; an exception leaving the call would go to
\* `handler`.
update_job_status(jid, status, url, error_message, md, progress, o, next, handler) ==
    LET payload == BuildPayload(jid, status, url, error_message, md, progress)
        r == PostResult(o)
    IN  /\ o = "ok" \/ DeliveryFailures < MaxDeliveryFailures
        /\ trace' = Append(trace, [kind |-> "report", payload |-> payload,
                                   delivered |-> (o = "ok"), ret |-> r.ret])
        /\ IF IsNone(r.raised)
           THEN pc' = next /\ exc' = exc
           ELSE pc' = handler /\ exc' = r.raised

\* A processing report of worker.py made from the try block.
ProcessingReport(progress, md, next) ==
    \E o \in PostOutcomes :
        update_job_status(job_id, "processing", None, None, md, Some(progress), o,
                          next, "except")

\* What _model_cache holds when a job starts: nothing in a fresh process, or
\* what an earlier job of the same process left there. The jobs followed in a
\* process that has run a job before: every image list with the metadata
\* absent, null or given, under the test script's naming.
CachesAtStart == {None, Some([status |-> "loaded"]), Some([status |-> "placeholder"])}
WarmKwargs ==
    {[shop |-> Some("acme.test"), product_id |-> Some(ProductGid)] @@ i @@ m :
        i \in ImageArgs, m \in MetadataArgs}

\* ------------------------------------------------------ worker.py: the task
Init ==
    /\ job_id \in JobIds
    /\ kwargs \in JobKwargs
    /\ pc = "start"
    /\ temp_dir = None
    /\ preprocessed_images = None
    /\ model_url = None
    /\ result_metadata = None
    /\ exc = None
    /\ retval = None
    /\ fs = EmptyDict
    /\ bucket \in InitialBuckets
    /\ model_cache \in CachesAtStart
    /\ IsNone(model_cache) \/ (kwargs \in WarmKwargs /\ bucket = EmptyDict)
    /\ trace = <<>>
    /\ cleanup = "none"
    /\ loaders = <<>>
    /\ workers = <<>>

\* ValidationError with product_id left out of the required fields.
ValidationErrorWithoutProduct ==
    IF IsNone(image_urls)
    THEN Some(Exc("TypeError", "object of type 'NoneType' has no len()"))
    ELSE IF ~TruthyStr(shop) \/ ~TruthyList(image_urls)
    THEN Some(Exc("ValueError",
                  "Missing required fields: shop, product_id, or image_urls"))
    ELSE None

\* worker.py 86: len(image_urls) raises TypeError when image_urls is None.
\* worker.py 90-91: the required fields.
ValidationError ==
    IF IsNone(image_urls)
    THEN Some(Exc("TypeError", "object of type 'NoneType' has no len()"))
    ELSE IF ~TruthyStr(shop) \/ ~TruthyId(product_id) \/ ~TruthyList(image_urls)
    THEN Some(Exc("ValueError",
                  "Missing required fields: shop, product_id, or image_urls"))
    ELSE None

\* worker.py 76-91
Validate ==
    /\ pc = "start"
    /\ exc' = ValidationError
    /\ pc' = IF IsNone(ValidationError) THEN "report_received" ELSE "except"
    /\ UNCHANGED <<workers, loaders, job_id, kwargs, temp_dir, preprocessed_images, model_url,
                   result_metadata, retval, fs, bucket, model_cache, trace, cleanup>>

\* worker.py 94
ReportReceived ==
    /\ pc = "report_received"
    /\ ProcessingReport(5, None, "mkdtemp")
    /\ UNCHANGED <<workers, loaders, job_id, kwargs, temp_dir, preprocessed_images, model_url,
                   result_metadata, retval, fs, bucket, model_cache, cleanup>>

\* The random part of the name tempfile.mkdtemp chooses.
TempSuffixes == {"k3x9"}
TempName(jid, suffix) == "3d_gen_" \o jid \o "_" \o suffix

\* worker.py 97: a fresh directory is created, or mkdtemp raises OSError.
MakeTempDir ==
    /\ pc = "mkdtemp"
    /\ \/ \E s \in TempSuffixes :
            LET d == <<TempName(job_id, s)>> IN
            /\ d \notin DOMAIN fs
            /\ temp_dir' = Some(d)
            /\ fs' = fs @@ (d :> "dir")
            /\ trace' = Append(trace, CallEvent("mkdtemp", TRUE))
            /\ pc' = "report_preprocessing"
            /\ exc' = exc
       \/ /\ exc' = Some(Exc("OSError", "[Errno 28] No space left on device"))
          /\ trace' = Append(trace, CallEvent("mkdtemp", FALSE))
          /\ pc' = "except"
          /\ UNCHANGED <<temp_dir, fs>>
    /\ UNCHANGED <<workers, loaders, job_id, kwargs, preprocessed_images, model_url,
                   result_metadata, retval, bucket, model_cache, cleanup>>

\* worker.py 102-105
ReportPreprocessing ==
    /\ pc = "report_preprocessing"
    /\ ProcessingReport(10, Some([step |-> "preprocessing",
                                  message |-> "Downloading and preprocessing images"]),
                        "preprocess")
    /\ UNCHANGED <<workers, loaders, job_id, kwargs, temp_dir, preprocessed_images, model_url,
                   result_metadata, retval, fs, bucket, model_cache, cleanup>>

\* ------------------------------------------- preprocessor.py: normalization
\* What can happen to one image inside preprocess_image: every stage succeeds,
\* or the download, the background removal, the crop or the save raises.
PreprocessOutcomes == {"ok", "download_failed", "rembg_failed", "crop_failed", "save_failed"}

Remove(f, paths) == [q \in DOMAIN f \ paths |-> f[q]]
Write(f, path, data) == (path :> data) @@ f

\* preprocessor.py 158-197: one image. The download is written to
\* temp_download.png beside the output and removed only at the end of a
\* successful run; every failure is re-raised as Exception.
preprocess_image(f, output_path, outcome) ==
    LET dir == SubSeq(output_path, 1, Len(output_path) - 1)
        temp_download == dir \o <<"temp_download.png">>
        made == Write(f, dir, "dir")
        downloaded == Write(made, temp_download, "download")
        failed(ff, cause) ==
            [fs |-> ff, path |-> None,
             raised |-> Some(Exc("Exception", "Image preprocessing failed: " \o cause))]
    IN  CASE outcome = "download_failed" ->
                failed(made, "Image download failed: 404 Not Found")
          [] outcome = "rembg_failed" ->
                failed(downloaded, "Background removal failed: out of memory")
          [] outcome = "crop_failed" ->
                failed(downloaded, "Center and crop failed: index out of range")
          [] outcome = "save_failed" ->
                failed(downloaded, "[Errno 28] No space left on device")
          [] OTHER ->
                [fs |-> Remove(Write(downloaded, output_path, "png"), {temp_download}),
                 path |-> Some(output_path), raised |-> None]

\* PreprocessLoop leaving the loop at the first image that fails.
RECURSIVE PreprocessLoopAborting(_, _, _, _, _, _)
PreprocessLoopAborting(i, urls, output_dir, outcomes, f, paths) ==
    IF i > Len(urls)
    THEN [fs |-> f, paths |-> paths]
    ELSE LET output_path == output_dir \o <<"preprocessed_" \o ToString(i - 1) \o ".png">>
             r == preprocess_image(f, output_path, outcomes[i])
         IN  IF IsNone(r.raised)
             THEN PreprocessLoopAborting(i + 1, urls, output_dir, outcomes, r.fs,
                                         Append(paths, r.path[1]))
             ELSE [fs |-> r.fs, paths |-> paths]

\* preprocessor.py 222-229: the loop over the URLs from index i (0-based in the
\* file names) on; a failed image is skipped.
RECURSIVE PreprocessLoop(_, _, _, _, _, _)
PreprocessLoop(i, urls, output_dir, outcomes, f, paths) ==
    IF i > Len(urls)
    THEN [fs |-> f, paths |-> paths]
    ELSE LET output_path == output_dir \o <<"preprocessed_" \o ToString(i - 1) \o ".png">>
             r == preprocess_image(f, output_path, outcomes[i])
         IN  PreprocessLoop(i + 1, urls, output_dir, outcomes, r.fs,
                            IF IsNone(r.raised) THEN Append(paths, r.path[1]) ELSE paths)

\* PreprocessedOrRaise returning the empty list instead of raising.
PreprocessedNeverRaises(paths) == [paths |-> Some(paths), raised |-> None]

\* preprocessor.py 231-235: an empty result is an error.
PreprocessedOrRaise(paths) ==
    IF paths = <<>>
    THEN [paths |-> None, raised |-> Some(Exc("Exception", "Failed to preprocess any images"))]
    ELSE [paths |-> Some(paths), raised |-> None]

\* preprocessor.py 200-235
preprocess_images(urls, output_dir, outcomes, f) ==
    LET l == PreprocessLoop(1, urls, output_dir, outcomes, Write(f, output_dir, "dir"), <<>>)
    IN  [fs |-> l.fs] @@ PreprocessedOrRaise(l.paths)

\* worker.py 107-113
Preprocess ==
    /\ pc = "preprocess"
    /\ \E outcomes \in [1..Len(image_urls[1]) -> PreprocessOutcomes] :
        LET r == preprocess_images(image_urls[1], temp_dir[1] \o <<"preprocessed">>,
                                   outcomes, fs)
        IN  /\ fs' = r.fs
            /\ trace' = Append(trace,
                    [kind |-> "call", name |-> "preprocess_images",
                     ok |-> IsNone(r.raised),
                     normalized |-> [i \in DOMAIN outcomes |-> outcomes[i] = "ok"]])
            /\ preprocessed_images' = r.paths
            /\ exc' = r.raised
            /\ pc' = IF IsNone(r.raised) THEN "report_preprocessed" ELSE "except"
    /\ UNCHANGED <<workers, loaders, job_id, kwargs, temp_dir, model_url, result_metadata, retval,
                   bucket, model_cache, cleanup>>

\* ReportPreprocessed going on to the reconstruction without the report of 50.
ReportPreprocessedSkipping ==
    /\ pc = "report_preprocessed"
    /\ ProcessingReport(40, None, "generate")
    /\ UNCHANGED <<workers, loaders, job_id, kwargs, temp_dir, preprocessed_images, model_url,
                   result_metadata, retval, fs, bucket, model_cache, cleanup>>

\* worker.py 116
ReportPreprocessed ==
    /\ pc = "report_preprocessed"
    /\ ProcessingReport(40, None, "report_generation")
    /\ UNCHANGED <<workers, loaders, job_id, kwargs, temp_dir, preprocessed_images, model_url,
                   result_metadata, retval, fs, bucket, model_cache, cleanup>>

\* worker.py 120-123
ReportGeneration ==
    /\ pc = "report_generation"
    /\ ProcessingReport(50, Some([step |-> "generation",
                                  message |-> "Running 3D generation"]),
                        "generate")
    /\ UNCHANGED <<workers, loaders, job_id, kwargs, temp_dir, preprocessed_images, model_url,
                   result_metadata, retval, fs, bucket, model_cache, cleanup>>

\* ---------------------------------------------- generator.py: reconstruction
\* What the environment does during one reconstruction: the device torch finds
\* (get_device), the model load, opening the input image, the inference and the
\* export.
Devices == {"cuda", "mps", "cpu"}
GenerateOutcomes ==
    [device : Devices, load : {"ok", "failed"}, open : {"ok", "failed"},
     infer : {"ok", "failed"}, export : {"ok", "encode_failed", "write_failed"}]

Loaded == [status |-> "loaded"]
Placeholder == [status |-> "placeholder"]

\* load_triposr_model with a failed load that returns without a handle and
\* caches nothing.
LoadWithoutFallback(cache, load) ==
    IF ~IsNone(cache) THEN cache
    ELSE IF load = "ok" THEN Some(Loaded) ELSE None

\* generator.py 36-74: the cached handle is returned when there is one; a load
\* that fails caches the placeholder instead of raising.
load_triposr_model(cache, load) ==
    IF ~IsNone(cache) THEN cache
    ELSE IF load = "ok" THEN Some(Loaded) ELSE Some(Placeholder)

\* McResolution with the fast resolution for a value it does not know.
McResolutionUnknownFast(q) ==
    IF q = Some("fast") THEN 128
    ELSE IF q = Some("balanced") THEN 192
    ELSE IF q = Some("quality") THEN 256
    ELSE 128

\* generator.py 119-125
McResolution(q) ==
    IF q = Some("fast") THEN 128
    ELSE IF q = Some("balanced") THEN 192
    ELSE IF q = Some("quality") THEN 256
    ELSE 192

\* generator.py 178-204: the cube, its vertices doubled (the code scales them
\* by 0.5), its twelve triangles and one colour per vertex.
create_placeholder_mesh ==
    [vertices |-> << <<-1, -1, -1>>, <<1, -1, -1>>, <<1, 1, -1>>, <<-1, 1, -1>>,
                     <<-1, -1, 1>>, <<1, -1, 1>>, <<1, 1, 1>>, <<-1, 1, 1>> >>,
     faces |-> << <<0, 1, 2>>, <<0, 2, 3>>, <<4, 6, 5>>, <<4, 7, 6>>,
                  <<0, 4, 5>>, <<0, 5, 1>>, <<2, 6, 7>>, <<2, 7, 3>>,
                  <<0, 3, 7>>, <<0, 7, 4>>, <<1, 5, 6>>, <<1, 6, 2>> >>,
     vertex_colors |-> << <<255, 0, 0, 255>>, <<0, 255, 0, 255>>, <<0, 0, 255, 255>>,
                          <<255, 255, 0, 255>>, <<255, 0, 255, 255>>,
                          <<0, 255, 255, 255>>, <<255, 255, 255, 255>>,
                          <<128, 128, 128, 255>> >>]

\* generator.py 138-145: the mesh the model extracts at a resolution.
ExtractedMesh(resolution) == [resolution |-> resolution]

\* What the GLB encoding of a mesh holds.
Glb(mesh) ==
    IF mesh = create_placeholder_mesh THEN "glb:placeholder"
    ELSE "glb:triposr:" \o ToString(mesh.resolution)

\* generator.py 209-228: the mesh is encoded, then written. A failed encoding
\* leaves no file, a failed write leaves what was written; both are re-raised.
export_mesh_as_glb(f, mesh, output_path, export) ==
    CASE export = "encode_failed" ->
            [fs |-> f,
             raised |-> Some(Exc("Exception", "GLB export failed: cannot encode mesh"))]
      [] export = "write_failed" ->
            [fs |-> Write(f, output_path, "partial"),
             raised |-> Some(Exc("Exception",
                                 "GLB export failed: [Errno 28] No space left on device"))]
      [] OTHER -> [fs |-> Write(f, output_path, Glb(mesh)), raised |-> None]

\* generator.py 98-99, 153-154, 162-163: the CUDA cache is emptied when CUDA is
\* available, and only then.
EmptyCache(device) == IF device = "cuda" THEN <<"empty_cache">> ELSE <<>>

\* generator.py 93-164 (generate_3d_model of the adapter), with what the call
\* did, in order (events) and the mesh it built. Every exception is re-raised
\* as Exception("3D generation failed: ...").
generate_from_image(image_path, output_path, q, cache, f, o) ==
    LET model == load_triposr_model(cache, o.load)
        begun == EmptyCache(o.device)
                 \o (IF IsNone(cache) THEN <<"load">> ELSE <<>>) \o <<"open">>
        wrap(e) == Some(Exc("Exception", "3D generation failed: " \o e))
        raise(done, e) ==
            [cache |-> model, fs |-> f, raised |-> wrap(e), mesh |-> None,
             opened |-> <<image_path>>,
             events |-> done \o EmptyCache(o.device)]
        export(done, mesh) ==
            LET x == export_mesh_as_glb(f, mesh, output_path, o.export)
            IN  [cache |-> model, fs |-> x.fs, mesh |-> Some(mesh),
                 opened |-> <<image_path>>,
                 raised |-> IF IsNone(x.raised) THEN None ELSE wrap(x.raised[1].msg),
                 events |-> done \o <<"export">> \o EmptyCache(o.device)]
    IN  IF image_path \notin DOMAIN f \/ o.open = "failed"
        THEN raise(begun, "cannot identify image file")
        ELSE IF model = Some(Placeholder)
        THEN export(begun \o <<"create_placeholder_mesh">>, create_placeholder_mesh)
        ELSE IF o.infer = "failed"
        THEN raise(begun \o <<"infer">>, "CUDA out of memory")
        ELSE export(begun \o <<"infer">>, ExtractedMesh(McResolution(q)))

\* generate_3d_from_multiple_images reconstructing from the last image.
GenerateFromLast(image_paths, output_path, q, cache, f, o) ==
    IF image_paths = <<>>
    THEN [cache |-> cache, fs |-> f, raised |-> Some(Exc("ValueError", "No images provided")),
          mesh |-> None, opened |-> <<>>, events |-> <<>>]
    ELSE generate_from_image(image_paths[Len(image_paths)], output_path, q, cache, f, o)

\* generator.py 250-257
generate_3d_from_multiple_images(image_paths, output_path, q, cache, f, o) ==
    IF image_paths = <<>>
    THEN [cache |-> cache, fs |-> f, raised |-> Some(Exc("ValueError", "No images provided")),
          mesh |-> None, opened |-> <<>>, events |-> <<>>]
    ELSE generate_from_image(image_paths[1], output_path, q, cache, f, o)

\* The record of one reconstruction call: the cache it found, whether it ran the
\* load and how that ended, whether it ran the inference, the images it opened,
\* the mesh it built.
GenerateEvent(cache, o, r) ==
    [kind |-> "call", name |-> "generate_3d_from_multiple_images",
     ok |-> IsNone(r.raised), cache |-> cache,
     load |-> IF \E k \in DOMAIN r.events : r.events[k] = "load" THEN o.load ELSE "none",
     inference |-> \E k \in DOMAIN r.events : r.events[k] = "infer",
     opened |-> r.opened,
     mesh |-> r.mesh]

\* worker.py 125-130
Generate ==
    /\ pc = "generate"
    /\ \E o \in GenerateOutcomes :
        LET r == generate_3d_from_multiple_images(
                     preprocessed_images[1], temp_dir[1] \o <<"model.glb">>, quality,
                     model_cache, fs, o)
        IN  /\ fs' = r.fs
            /\ model_cache' = r.cache
            /\ trace' = Append(trace, GenerateEvent(model_cache, o, r))
            /\ exc' = r.raised
            /\ pc' = IF IsNone(r.raised) THEN "report_generated" ELSE "except"
    /\ UNCHANGED <<workers, loaders, job_id, kwargs, temp_dir, preprocessed_images, model_url,
                   result_metadata, retval, bucket, cleanup>>

\* ReportGenerated with the progress value mistyped.
ReportGeneratedMistyped ==
    /\ pc = "report_generated"
    /\ ProcessingReport(8, None, "report_upload")
    /\ UNCHANGED <<workers, loaders, job_id, kwargs, temp_dir, preprocessed_images, model_url,
                   result_metadata, retval, fs, bucket, model_cache, cleanup>>

\* worker.py 133
ReportGenerated ==
    /\ pc = "report_generated"
    /\ ProcessingReport(80, None, "report_upload")
    /\ UNCHANGED <<workers, loaders, job_id, kwargs, temp_dir, preprocessed_images, model_url,
                   result_metadata, retval, fs, bucket, model_cache, cleanup>>

\* worker.py 137-140
ReportUpload ==
    /\ pc = "report_upload"
    /\ ProcessingReport(85, Some([step |-> "upload",
                                  message |-> "Uploading model to storage"]),
                        "upload")
    /\ UNCHANGED <<workers, loaders, job_id, kwargs, temp_dir, preprocessed_images, model_url,
                   result_metadata, retval, fs, bucket, model_cache, cleanup>>

\* ------------------------------------------------------ storage.py: publish
\* What the environment does during one publish: the client (credentials), the
\* remove and the upload.
UploadOutcomes ==
    [client : {"ok", "failed"}, remove : {"ok", "failed"}, upload : {"ok", "failed"}]

\* CleanId keeping the first segment of an id instead of the last.
CleanIdFirstSegment(segments) == segments[1]

\* storage.py 53, 57: the last "/"-separated segment of an id.
CleanId(segments) == IF Len(segments) > 1 THEN segments[Len(segments)] ELSE segments[1]

\* storage.py 53-59
StorageKey(shop_name, product, variant) ==
    shop_name \o "/" \o CleanId(product)
    \o (IF TruthyId(variant) THEN "/" \o CleanId(variant[1]) ELSE "")
    \o ".glb"

\* get_public_url of the storage client.
PublicUrl(key) == "https://supabase.test/storage/v1/object/public/3d-models/" \o key

\* upload_model_to_supabase with an upload that does not overwrite: the service
\* refuses a key that still holds an object.
UploadWithoutUpsert(file_path, shop_name, product, variant, f, b, o) ==
    LET key == StorageKey(shop_name, product, variant)
        removed == IF o.remove = "ok" THEN Remove(b, {key}) ELSE b
        wrap(e) == Some(Exc("Exception", "Supabase upload failed: " \o e))
    IN  IF o.client = "failed"
        THEN [bucket |-> b, url |-> None, key |-> None,
              raised |-> wrap("SUPABASE_URL and SUPABASE_SERVICE_ROLE_KEY must be set")]
        ELSE IF file_path \notin DOMAIN f
        THEN [bucket |-> b, url |-> None, key |-> Some(key),
              raised |-> wrap("[Errno 2] No such file or directory")]
        ELSE IF o.upload = "failed"
        THEN [bucket |-> removed, url |-> None, key |-> Some(key),
              raised |-> wrap("storage error")]
        ELSE IF key \in DOMAIN removed
        THEN [bucket |-> removed, url |-> None, key |-> Some(key),
              raised |-> wrap("The resource already exists")]
        ELSE [bucket |-> Write(removed, key, f[file_path]), key |-> Some(key),
              url |-> Some(PublicUrl(key)), raised |-> None]

\* upload_model_to_supabase with the exception of the upload ignored as the one
\* of the remove is: the URL is returned all the same.
UploadErrorIgnored(file_path, shop_name, product, variant, f, b, o) ==
    LET key == StorageKey(shop_name, product, variant)
        removed == IF o.remove = "ok" THEN Remove(b, {key}) ELSE b
        wrap(e) == Some(Exc("Exception", "Supabase upload failed: " \o e))
    IN  IF o.client = "failed"
        THEN [bucket |-> b, url |-> None, key |-> None,
              raised |-> wrap("SUPABASE_URL and SUPABASE_SERVICE_ROLE_KEY must be set")]
        ELSE IF file_path \notin DOMAIN f
        THEN [bucket |-> b, url |-> None, key |-> Some(key),
              raised |-> wrap("[Errno 2] No such file or directory")]
        ELSE IF o.upload = "failed"
        THEN [bucket |-> removed, url |-> Some(PublicUrl(key)), key |-> Some(key),
              raised |-> None]
        ELSE [bucket |-> Write(removed, key, f[file_path]), key |-> Some(key),
              url |-> Some(PublicUrl(key)), raised |-> None]

\* storage.py 46-88, with the key it computed (none when the client could not
\* be made). The object at the key is removed first, an exception of the remove
\* being ignored; the upload overwrites (upsert). Every exception is re-raised
\* as Exception("Supabase upload failed: ...").
upload_model_to_supabase(file_path, shop_name, product, variant, f, b, o) ==
    LET key == StorageKey(shop_name, product, variant)
        removed == IF o.remove = "ok" THEN Remove(b, {key}) ELSE b
        wrap(e) == Some(Exc("Exception", "Supabase upload failed: " \o e))
    IN  IF o.client = "failed"
        THEN [bucket |-> b, url |-> None, key |-> None,
              raised |-> wrap("SUPABASE_URL and SUPABASE_SERVICE_ROLE_KEY must be set")]
        ELSE IF file_path \notin DOMAIN f
        THEN [bucket |-> b, url |-> None, key |-> Some(key),
              raised |-> wrap("[Errno 2] No such file or directory")]
        ELSE IF o.upload = "failed"
        THEN [bucket |-> removed, url |-> None, key |-> Some(key),
              raised |-> wrap("storage error")]
        ELSE [bucket |-> Write(removed, key, f[file_path]), key |-> Some(key),
              url |-> Some(PublicUrl(key)), raised |-> None]

\* worker.py 142-147
Upload ==
    /\ pc = "upload"
    /\ \E o \in UploadOutcomes :
        LET r == upload_model_to_supabase(temp_dir[1] \o <<"model.glb">>, shop[1],
                                          product_id[1], variant_id, fs, bucket, o)
        IN  /\ bucket' = r.bucket
            /\ model_url' = r.url
            /\ trace' = Append(trace, CallEvent("upload_model_to_supabase",
                                                IsNone(r.raised)))
            /\ exc' = r.raised
            /\ pc' = IF IsNone(r.raised) THEN "report_uploaded" ELSE "except"
    /\ UNCHANGED <<workers, loaders, job_id, kwargs, temp_dir, preprocessed_images, result_metadata,
                   retval, fs, model_cache, cleanup>>

\* worker.py 150
ReportUploaded ==
    /\ pc = "report_uploaded"
    /\ ProcessingReport(95, None, "finalize")
    /\ UNCHANGED <<workers, loaders, job_id, kwargs, temp_dir, preprocessed_images, model_url,
                   result_metadata, retval, fs, bucket, model_cache, cleanup>>

\* ------------------------------------------------- worker.py: finalization
\* ResultMetadata with the caller's entries unpacked last, so that they replace
\* the pipeline's own.
ResultMetadataCallerLast(md, q, images, handle) ==
    md @@ [quality |-> q, images_processed |-> Len(images), product_handle |-> handle]

\* worker.py 154-159: the caller's entries, then the pipeline's own, which
\* replace caller entries of the same name.
ResultMetadata(md, q, images, handle) ==
    [quality |-> q, images_processed |-> Len(images), product_handle |-> handle] @@ md

\* worker.py 154-159: unpacking metadata that is None raises TypeError.
Finalize ==
    /\ pc = "finalize"
    /\ IF IsNone(metadata)
       THEN /\ exc' = Some(Exc("TypeError", "'NoneType' object is not a mapping"))
            /\ pc' = "except"
            /\ UNCHANGED result_metadata
       ELSE /\ result_metadata' =
                    Some(ResultMetadata(metadata[1], quality, preprocessed_images[1],
                                        product_handle))
            /\ pc' = "report_completed"
            /\ exc' = exc
    /\ UNCHANGED <<workers, loaders, job_id, kwargs, temp_dir, preprocessed_images, model_url, retval,
                   fs, bucket, model_cache, trace, cleanup>>

\* worker.py 161-167
ReportCompleted ==
    /\ pc = "report_completed"
    /\ \E o \in PostOutcomes :
        update_job_status(job_id, "completed", model_url, None, result_metadata,
                          Some(100), o, "return", "except")
    /\ UNCHANGED <<workers, loaders, job_id, kwargs, temp_dir, preprocessed_images, model_url,
                   result_metadata, retval, fs, bucket, model_cache, cleanup>>

\* Return with a result whose construction raises inside the try block, after
\* the completed report.
ReturnRaises ==
    /\ pc = "return"
    /\ exc' = Some(Exc("KeyError", "'model_url'"))
    /\ pc' = "except"
    /\ UNCHANGED <<workers, loaders, job_id, kwargs, temp_dir, preprocessed_images, model_url,
                   result_metadata, retval, fs, bucket, model_cache, trace, cleanup>>

\* worker.py 171-176: the result is built; the finally block runs before the
\* task returns it.
Return ==
    /\ pc = "return"
    /\ retval' = Some([job_id |-> job_id, status |-> "completed",
                       model_url |-> model_url[1], metadata |-> result_metadata[1]])
    /\ pc' = "finally"
    /\ UNCHANGED <<workers, loaders, job_id, kwargs, temp_dir, preprocessed_images, model_url,
                   result_metadata, exc, fs, bucket, model_cache, trace, cleanup>>

\* ExceptHandler with an except clause for ValueError only: any other exception
\* leaves the task unreported.
ExceptHandlerValueErrorOnly ==
    /\ pc = "except"
    /\ IF exc[1].type = "ValueError"
       THEN \E o \in PostOutcomes :
                update_job_status(job_id, "failed", None, Some(exc[1].msg),
                                  Some([error_type |-> exc[1].type]), None, o,
                                  "finally", "finally")
       ELSE pc' = "finally" /\ UNCHANGED <<exc, trace>>
    /\ UNCHANGED <<workers, loaders, job_id, kwargs, temp_dir, preprocessed_images, model_url,
                   result_metadata, retval, fs, bucket, model_cache, cleanup>>

\* ExceptHandler emptying the bucket as it reports the failure.
ExceptHandlerClearingBucket ==
    /\ pc = "except"
    /\ \E o \in PostOutcomes :
        update_job_status(job_id, "failed", None, Some(exc[1].msg),
                          Some([error_type |-> exc[1].type]), None, o,
                          "finally", "finally")
    /\ bucket' = EmptyDict
    /\ UNCHANGED <<workers, loaders, job_id, kwargs, temp_dir, preprocessed_images, model_url,
                   result_metadata, retval, fs, model_cache, cleanup>>

\* worker.py 178-190: the failed report, then the exception is re-raised; the
\* finally block runs before it leaves the task.
ExceptHandler ==
    /\ pc = "except"
    /\ \E o \in PostOutcomes :
        update_job_status(job_id, "failed", None, Some(exc[1].msg),
                          Some([error_type |-> exc[1].type]), None, o,
                          "finally", "finally")
    /\ UNCHANGED <<workers, loaders, job_id, kwargs, temp_dir, preprocessed_images, model_url,
                   result_metadata, retval, fs, bucket, model_cache, cleanup>>

\* Every path below the directory d, and d itself.
Tree(f, d) == {q \in DOMAIN f : Len(q) >= Len(d) /\ SubSeq(q, 1, Len(d)) = d}

\* worker.py 194: temp_dir and os.path.exists(temp_dir)
WorkspaceExists == ~IsNone(temp_dir) /\ temp_dir[1] \in DOMAIN fs

\* Finally with the removal made only on the success path.
FinallyOnSuccessOnly ==
    /\ pc = "finally"
    /\ \/ /\ ~WorkspaceExists \/ ~IsNone(exc)
          /\ cleanup' = "skipped"
          /\ fs' = fs
       \/ /\ WorkspaceExists /\ IsNone(exc)
          /\ cleanup' = "removed"
          /\ fs' = Remove(fs, Tree(fs, temp_dir[1]))
    /\ pc' = "done"
    /\ UNCHANGED <<workers, loaders, job_id, kwargs, temp_dir, preprocessed_images, model_url,
                   result_metadata, exc, retval, bucket, model_cache, trace>>

\* Finally without the try around rmtree: an exception of rmtree leaves the
\* finally block and replaces what the task was about to return or raise.
FinallyCleanupErrorPropagates ==
    /\ pc = "finally"
    /\ \/ /\ ~WorkspaceExists
          /\ cleanup' = "skipped"
          /\ fs' = fs
          /\ exc' = exc
       \/ /\ WorkspaceExists
          /\ cleanup' = "removed"
          /\ fs' = Remove(fs, Tree(fs, temp_dir[1]))
          /\ exc' = exc
       \/ /\ WorkspaceExists
          /\ cleanup' = "failed"
          /\ fs' \in {fs, Remove(fs, Tree(fs, temp_dir[1]) \ {temp_dir[1]})}
          /\ exc' = Some(Exc("OSError", "[Errno 39] Directory not empty"))
    /\ pc' = "done"
    /\ UNCHANGED <<workers, loaders, job_id, kwargs, temp_dir, preprocessed_images, model_url,
                   result_metadata, retval, bucket, model_cache, trace>>

\* worker.py 192-199: the workspace is removed when there is one; an exception
\* of rmtree (nothing removed, or the content removed and the directory left)
\* is logged and goes no further. The task then returns or raises.
Finally ==
    /\ pc = "finally"
    /\ \/ /\ ~WorkspaceExists
          /\ cleanup' = "skipped"
          /\ fs' = fs
       \/ /\ WorkspaceExists
          /\ cleanup' = "removed"
          /\ fs' = Remove(fs, Tree(fs, temp_dir[1]))
       \/ /\ WorkspaceExists
          /\ cleanup' = "failed"
          /\ fs' \in {fs, Remove(fs, Tree(fs, temp_dir[1]) \ {temp_dir[1]})}
    /\ pc' = "done"
    /\ UNCHANGED <<workers, loaders, job_id, kwargs, temp_dir, preprocessed_images, model_url,
                   result_metadata, exc, retval, bucket, model_cache, trace>>

Next ==
    \/ Validate
    \/ ReportReceived
    \/ MakeTempDir
    \/ ReportPreprocessing
    \/ Preprocess
    \/ ReportPreprocessed
    \/ ReportGeneration
    \/ Generate
    \/ ReportGenerated
    \/ ReportUpload
    \/ Upload
    \/ ReportUploaded
    \/ Finalize
    \/ ReportCompleted
    \/ Return
    \/ ExceptHandler
    \/ Finally

Spec == Init /\ [][Next]_vars

\* The jobs the progress of a started task is checked on: every naming, and
\* under the test script's naming every image list with the metadata absent,
\* null or given. The arguments left at their defaults (product_handle,
\* quality) and the bucket's content decide no branch of the task.
ProgressKwargs ==
    {n @@ [image_urls |-> Some(<<UrlAt(1)>>), quality |-> Some("fast")] :
        n \in NamingArgs}
    \cup {[shop |-> Some("acme.test"), product_id |-> Some(ProductGid)] @@ i @@ m :
            i \in ImageArgs, m \in MetadataArgs}
FairInit == Init /\ kwargs \in ProgressKwargs /\ bucket = EmptyDict

\* The task framework runs a started task to its end: each step of the task is
\* taken once it is enabled.
FairSpec == FairInit /\ [][Next]_vars /\ WF_vars(Next)

\* How the task ended.
Returned == pc = "done" /\ IsNone(exc)
Raised == pc = "done" /\ ~IsNone(exc)

\* ------------------------- generator.py: load_triposr_model, thread by thread
\* Several jobs of one process (a thread pool) inside load_triposr_model at
\* once. The function takes no lock: between its statements another thread may
\* run. A thread is at "check" (line 38), "load" (41-63), "store" (65 or 73),
\* "return" (67 or 74) or "done".
Threads == 1..MaxThreads

IdleJob ==
    /\ job_id \in JobIds
    /\ kwargs = [shop |-> Some("acme.test"), product_id |-> Some(ProductGid)]
    /\ pc = "generate"
    /\ temp_dir = None
    /\ preprocessed_images = None
    /\ model_url = None
    /\ result_metadata = None
    /\ exc = None
    /\ retval = None
    /\ bucket = EmptyDict
    /\ cleanup = "none"

jobVars == <<job_id, kwargs, pc, temp_dir, preprocessed_images, model_url,
             result_metadata, exc, retval, bucket, cleanup>>

\* The callers arrive while the cache is empty.
LoadInit ==
    /\ IdleJob
    /\ fs = EmptyDict
    /\ model_cache = None
    /\ trace = <<>>
    /\ loaders = [t \in Threads |-> [pc |-> "check", model |-> None, ret |-> None]]
    /\ workers = <<>>

\* generator.py 38-39: the cached handle is returned when there is one.
LoadCheck(t) ==
    /\ loaders[t].pc = "check"
    /\ loaders' = [loaders EXCEPT ![t] =
            IF ~IsNone(model_cache)
            THEN [pc |-> "done", model |-> None, ret |-> model_cache]
            ELSE [pc |-> "load", model |-> None, ret |-> None]]
    /\ UNCHANGED <<workers, jobVars, fs, model_cache, trace>>

\* generator.py 41-63 and 69-72: the model is loaded and moved to the device,
\* or an exception is caught and the placeholder is built.
LoadModel(t) ==
    /\ loaders[t].pc = "load"
    /\ \E load \in {"ok", "failed"} :
        /\ loaders' = [loaders EXCEPT ![t] =
                [pc |-> "store",
                 model |-> IF load = "ok" THEN Some(Loaded) ELSE Some(Placeholder),
                 ret |-> None]]
        /\ trace' = Append(trace, [kind |-> "load", thread |-> t, ok |-> (load = "ok")])
    /\ UNCHANGED <<workers, jobVars, fs, model_cache>>

\* generator.py 65 and 73: the assignment to _model_cache.
LoadStore(t) ==
    /\ loaders[t].pc = "store"
    /\ model_cache' = loaders[t].model
    /\ trace' = Append(trace, [kind |-> "store", thread |-> t,
                               overwrote |-> ~IsNone(model_cache)])
    /\ loaders' = [loaders EXCEPT ![t].pc = "return"]
    /\ UNCHANGED <<workers, jobVars, fs>>

\* generator.py 67 and 74: return _model_cache, read again.
LoadReturn(t) ==
    /\ loaders[t].pc = "return"
    /\ loaders' = [loaders EXCEPT ![t] = [pc |-> "done", model |-> @.model,
                                          ret |-> model_cache]]
    /\ UNCHANGED <<workers, jobVars, fs, model_cache, trace>>

LoadNext ==
    \E t \in Threads : LoadCheck(t) \/ LoadModel(t) \/ LoadStore(t) \/ LoadReturn(t)

LoadSpec == LoadInit /\ [][LoadNext]_vars

\* ------------------------------- generator.py: one reconstruction after another
\* The adapter called by one job after another of the same process, each with
\* the image it normalized and an output path in its own workspace.
AdapterQualities ==
    {EmptyDict, [quality |-> None], [quality |-> Some("")], [quality |-> Some("fast")],
     [quality |-> Some("balanced")], [quality |-> Some("quality")],
     [quality |-> Some("ultra")]}
AdapterKwargs ==
    {[shop |-> Some("acme.test"), product_id |-> Some(ProductGid)] @@ q :
        q \in AdapterQualities}
NormalizedImage == <<"in", "preprocessed_0.png">>

AdapterInit ==
    /\ job_id \in JobIds
    /\ kwargs \in AdapterKwargs
    /\ pc = "generate"
    /\ temp_dir = None
    /\ preprocessed_images = Some(<<NormalizedImage>>)
    /\ model_url = None
    /\ result_metadata = None
    /\ exc = None
    /\ retval = None
    /\ fs = (NormalizedImage :> "png")
    /\ bucket = EmptyDict
    /\ model_cache = None
    /\ trace = <<>>
    /\ cleanup = "none"
    /\ loaders = <<>>
    /\ workers = <<>>

\* worker.py 125-130, run by the next job: one call of the adapter, recorded
\* with the device it found, what it did in order and what the export did.
AdapterCall ==
    /\ pc = "generate"
    /\ Len(trace) < MaxCalls
    /\ \E o \in GenerateOutcomes :
        LET output_path == <<"w" \o ToString(Len(trace) + 1), "model.glb">>
            r == generate_3d_from_multiple_images(preprocessed_images[1], output_path,
                                                  quality, model_cache, fs, o)
            exported == \E k \in DOMAIN r.events : r.events[k] = "export"
        IN  /\ fs' = r.fs
            /\ model_cache' = r.cache
            /\ exc' = r.raised
            /\ trace' = Append(trace,
                    GenerateEvent(model_cache, o, r)
                    @@ [device |-> o.device, events |-> r.events,
                        output_path |-> output_path,
                        export |-> IF exported THEN o.export ELSE "none",
                        raised |-> r.raised])
    /\ UNCHANGED <<workers, loaders, job_id, kwargs, pc, temp_dir, preprocessed_images,
                   model_url, result_metadata, retval, bucket, cleanup>>

AdapterNext == AdapterCall

AdapterSpec == AdapterInit /\ [][AdapterNext]_vars

\* ------------------------------------ storage.py: publishing again and again
\* The publisher called by one job after another for the same shop, product and
\* variant, each job bringing the file it built.
PublishVariants ==
    {EmptyDict, [variant_id |-> None], [variant_id |-> Some(<<"">>)],
     [variant_id |-> Some(<<"456">>)], [variant_id |-> Some(VariantGid)]}
PublishProducts ==
    {[product_id |-> Some(<<"123">>)], [product_id |-> Some(ProductGid)],
     [product_id |-> Some(<<"gid:", "", "shopify", "Product", "">>)]}
PublishKwargs ==
    {[shop |-> Some("acme.test")] @@ p @@ v : p \in PublishProducts, v \in PublishVariants}

\* The files the jobs built, and a path at which no file was built.
BuiltFiles ==
    [p \in {<<"w1", "model.glb">>, <<"w2", "model.glb">>} |->
        IF p[1] = "w1" THEN "glb:placeholder" ELSE "glb:triposr:192"]
PublishPaths == DOMAIN BuiltFiles \cup {<<"w3", "model.glb">>}

\* Another shop's object, which is in the bucket throughout.
OtherObjects == [k \in {"other.test/9.glb"} |-> "glb:other"]

PublishInit ==
    /\ job_id \in JobIds
    /\ kwargs \in PublishKwargs
    /\ pc = "upload"
    /\ temp_dir = None
    /\ preprocessed_images = None
    /\ model_url = None
    /\ result_metadata = None
    /\ exc = None
    /\ retval = None
    /\ fs = BuiltFiles
    /\ bucket \in {OtherObjects,
                   Write(OtherObjects, StorageKey(shop[1], product_id[1], variant_id),
                         "glb:old")}
    /\ model_cache = None
    /\ trace = <<>>
    /\ cleanup = "none"
    /\ loaders = <<>>
    /\ workers = <<>>

\* worker.py 142-147, run by the next job: one call of upload_model_to_supabase,
\* recorded with the bucket before and after it.
Publish ==
    /\ pc = "upload"
    /\ Len(trace) < MaxPublishes
    /\ \E path \in PublishPaths, o \in UploadOutcomes :
        LET r == upload_model_to_supabase(path, shop[1], product_id[1], variant_id,
                                          fs, bucket, o)
        IN  /\ bucket' = r.bucket
            /\ model_url' = r.url
            /\ exc' = r.raised
            /\ trace' = Append(trace,
                    [kind |-> "publish", path |-> path, outcome |-> o, key |-> r.key,
                     before |-> bucket, after |-> r.bucket, url |-> r.url,
                     raised |-> r.raised])
    /\ UNCHANGED <<workers, loaders, job_id, kwargs, pc, temp_dir, preprocessed_images,
                   result_metadata, retval, fs, model_cache, cleanup>>

PublishNext == Publish

PublishSpec == PublishInit /\ [][PublishNext]_vars

\* --------------------------------------- storage.py: publishing and deleting
\* What the environment does during one delete: the client (credentials) and
\* the remove, which the service may refuse (a storage error, or a missing
\* object it reports as an error).
DeleteOutcomes == [client : {"ok", "failed"}, remove : {"ok", "failed"}]

\* DeleteKey with the variant left out of the key.
DeleteKeyWithoutVariant(shop_name, product, variant) ==
    shop_name \o "/" \o CleanId(product) \o ".glb"

\* storage.py 112-118: the key, computed as the upload computes it.
DeleteKey(shop_name, product, variant) ==
    shop_name \o "/"
    \o (IF Len(product) > 1 THEN product[Len(product)] ELSE product[1])
    \o (IF TruthyId(variant)
        THEN "/" \o (IF Len(variant[1]) > 1 THEN variant[1][Len(variant[1])]
                     ELSE variant[1][1])
        ELSE "")
    \o ".glb"

\* delete_model_from_supabase with the exception raised again instead of
\* returning False.
DeleteReraises(shop_name, product, variant, b, o) ==
    LET key == DeleteKey(shop_name, product, variant)
    IN  IF o.client = "failed"
        THEN [bucket |-> b, ret |-> None, key |-> None,
              raised |-> Some(Exc("ValueError",
                                  "SUPABASE_URL and SUPABASE_SERVICE_ROLE_KEY must be set"))]
        ELSE IF o.remove = "failed"
        THEN [bucket |-> b, ret |-> None, key |-> Some(key),
              raised |-> Some(Exc("StorageException", "storage error"))]
        ELSE [bucket |-> Remove(b, {key}), ret |-> Some(TRUE), key |-> Some(key),
              raised |-> None]

\* storage.py 107-126: True after the remove returned; every exception is
\* caught and False returned.
delete_model_from_supabase(shop_name, product, variant, b, o) ==
    LET key == DeleteKey(shop_name, product, variant)
    IN  IF o.client = "failed"
        THEN [bucket |-> b, ret |-> Some(FALSE), key |-> None, raised |-> None]
        ELSE IF o.remove = "failed"
        THEN [bucket |-> b, ret |-> Some(FALSE), key |-> Some(key), raised |-> None]
        ELSE [bucket |-> Remove(b, {key}), ret |-> Some(TRUE), key |-> Some(key),
              raised |-> None]

\* One call of delete_model_from_supabase for the identifiers of the publishes,
\* recorded with the bucket before and after it.
Unpublish ==
    /\ pc = "upload"
    /\ Len(trace) < MaxPublishes
    /\ \E o \in DeleteOutcomes :
        LET r == delete_model_from_supabase(shop[1], product_id[1], variant_id,
                                            bucket, o)
        IN  /\ bucket' = r.bucket
            /\ exc' = r.raised
            /\ trace' = Append(trace,
                    [kind |-> "delete", outcome |-> o, key |-> r.key,
                     before |-> bucket, after |-> r.bucket, ret |-> r.ret,
                     raised |-> r.raised])
    /\ UNCHANGED <<workers, loaders, job_id, kwargs, pc, temp_dir, preprocessed_images,
                   model_url, result_metadata, retval, fs, model_cache, cleanup>>

StorageNext == Publish \/ Unpublish

StorageSpec == PublishInit /\ [][StorageNext]_vars

\* ------------------------------------ preprocessor.py: center_and_crop_image
\* The default of the padding parameter, which preprocess_image leaves alone.
Padding == 50

Min2(a, b) == IF a <= b THEN a ELSE b
Max2(a, b) == IF a >= b THEN a ELSE b

\* An image is its width and height and, when some pixel has alpha over 10,
\* what np.where gives for it: the indices of the first and of the last column
\* and row that hold such a pixel (both inclusive).
CropSides == {MaxSide - 100, MaxSide}
CropCoords(side) ==
    {c \in {0, Padding - 1, Padding, side - 1 - Padding, side - Padding, side - 1} :
        0 <= c /\ c < side}
Foregrounds(width, height) ==
    {[x_min |-> x1, x_max |-> x2, y_min |-> y1, y_max |-> y2] :
        x1 \in CropCoords(width), x2 \in CropCoords(width),
        y1 \in CropCoords(height), y2 \in CropCoords(height)}
CropImages ==
    UNION {
        {[width |-> w, height |-> h, foreground |-> None]}
        \cup {[width |-> w, height |-> h, foreground |-> Some(g)] :
                g \in {b \in Foregrounds(w, h) : b.x_min <= b.x_max /\ b.y_min <= b.y_max}}
        : w \in CropSides, h \in CropSides}

\* preprocessor.py 97-127: the box given to image.crop, (left, upper, right,
\* lower), of which PIL keeps the columns left..right-1 and the rows
\* upper..lower-1, and the square the crop is pasted into; None when the image
\* has no foreground and is resized whole (100-103).
center_and_crop_image(image) ==
    IF IsNone(image.foreground)
    THEN [box |-> None, max_dim |-> None, paste |-> None]
    ELSE LET g == image.foreground[1]
             y_min == Max2(0, g.y_min - Padding)
             y_max == Min2(image.height, g.y_max + Padding)
             x_min == Max2(0, g.x_min - Padding)
             x_max == Min2(image.width, g.x_max + Padding)
             width == x_max - x_min
             height == y_max - y_min
             max_dim == Max2(width, height)
         IN  [box |-> Some([left |-> x_min, upper |-> y_min,
                            right |-> x_max, lower |-> y_max]),
              max_dim |-> Some(max_dim),
              paste |-> Some(<<(max_dim - width) \div 2, (max_dim - height) \div 2>>)]

\* The image of one call, drawn from CropImages, is the argument kept in kwargs.
CropInit ==
    /\ job_id \in JobIds
    /\ kwargs \in {[image |-> i] : i \in CropImages}
    /\ pc = "crop"
    /\ temp_dir = None
    /\ preprocessed_images = None
    /\ model_url = None
    /\ result_metadata = None
    /\ exc = None
    /\ retval = None
    /\ fs = EmptyDict
    /\ bucket = EmptyDict
    /\ model_cache = None
    /\ trace = <<>>
    /\ cleanup = "none"
    /\ loaders = <<>>
    /\ workers = <<>>

\* preprocessor.py 183: the call, recorded with its image and its crop box.
Crop ==
    /\ pc = "crop"
    /\ LET r == center_and_crop_image(kwargs.image)
       IN  trace' = Append(trace, [kind |-> "crop", image |-> kwargs.image] @@ r)
    /\ pc' = "done"
    /\ UNCHANGED <<workers, loaders, job_id, kwargs, temp_dir, preprocessed_images, model_url,
                   result_metadata, exc, retval, fs, bucket, model_cache, cleanup>>

CropNext == Crop

CropSpec == CropInit /\ [][CropNext]_vars

\* ------------------------------------- worker.py: the workspaces of many jobs
\* Several jobs run on one host at once (a worker pool) and share its
\* filesystem, its model cache and the bucket. Each keeps its own locals:
\* job_id, temp_dir, preprocessed_images, and where it is among the statements
\* that touch the workspace: "mkdtemp" (97), "preprocess" (107-113), "generate"
\* (125-130), "upload" (142-147), "finally" (192-199), "done". The reports in
\* between touch no file and are left out. Two jobs may carry the same job_id.
Workers == 1..MaxWorkers
WorkspaceJobIds == {"job-1", "job-2"}
\* The random parts tempfile.mkdtemp may choose.
WorkspaceSuffixes == {"k3x9", "p7m2"}
\* The URLs of every job.
WorkspaceUrls == <<UrlAt(1)>>

WorkspaceInit ==
    /\ IdleJob
    /\ fs = EmptyDict
    /\ model_cache = Some(Loaded)
    /\ trace = <<>>
    /\ loaders = <<>>
    /\ workers \in [Workers -> {[job_id |-> j, pc |-> "mkdtemp", temp_dir |-> None,
                                preprocessed_images |-> None, cleanup |-> "none"] :
                                j \in WorkspaceJobIds}]

\* JobMakeTempDir with a directory named after the job alone, made with
\* os.makedirs(..., exist_ok=True).
JobMakeTempDirByJobId(w) ==
    /\ workers[w].pc = "mkdtemp"
    /\ LET d == <<"3d_gen_" \o workers[w].job_id>> IN
        /\ workers' = [workers EXCEPT ![w].temp_dir = Some(d), ![w].pc = "preprocess"]
        /\ fs' = Write(fs, d, "dir")
    /\ UNCHANGED <<jobVars, model_cache, trace, loaders>>

\* worker.py 97: mkdtemp creates a directory that did not exist (it tries names
\* until the creation succeeds), or raises OSError.
JobMakeTempDir(w) ==
    /\ workers[w].pc = "mkdtemp"
    /\ \/ \E s \in WorkspaceSuffixes :
            LET d == <<TempName(workers[w].job_id, s)>> IN
            /\ d \notin DOMAIN fs
            /\ workers' = [workers EXCEPT ![w].temp_dir = Some(d), ![w].pc = "preprocess"]
            /\ fs' = fs @@ (d :> "dir")
       \/ /\ workers' = [workers EXCEPT ![w].pc = "finally"]
          /\ fs' = fs
    /\ UNCHANGED <<jobVars, model_cache, trace, loaders>>

\* worker.py 107-113
JobPreprocess(w) ==
    /\ workers[w].pc = "preprocess"
    /\ \E outcomes \in [1..Len(WorkspaceUrls) -> PreprocessOutcomes] :
        LET r == preprocess_images(WorkspaceUrls,
                                   workers[w].temp_dir[1] \o <<"preprocessed">>,
                                   outcomes, fs)
        IN  /\ fs' = r.fs
            /\ workers' = [workers EXCEPT
                    ![w].preprocessed_images = r.paths,
                    ![w].pc = IF IsNone(r.raised) THEN "generate" ELSE "finally"]
    /\ UNCHANGED <<jobVars, model_cache, trace, loaders>>

\* worker.py 125-130
JobGenerate(w) ==
    /\ workers[w].pc = "generate"
    /\ \E o \in GenerateOutcomes :
        LET r == generate_3d_from_multiple_images(
                     workers[w].preprocessed_images[1],
                     workers[w].temp_dir[1] \o <<"model.glb">>, quality,
                     model_cache, fs, o)
        IN  /\ fs' = r.fs
            /\ model_cache' = r.cache
            /\ workers' = [workers EXCEPT
                    ![w].pc = IF IsNone(r.raised) THEN "upload" ELSE "finally"]
    /\ UNCHANGED <<jobVars, trace, loaders>>

\* worker.py 142-147: the asset is read from the workspace and published.
JobUpload(w) ==
    /\ workers[w].pc = "upload"
    /\ \E o \in UploadOutcomes :
        LET r == upload_model_to_supabase(workers[w].temp_dir[1] \o <<"model.glb">>,
                                          shop[1], product_id[1], variant_id,
                                          fs, bucket, o)
        IN  bucket' = r.bucket
    /\ workers' = [workers EXCEPT ![w].pc = "finally"]
    /\ UNCHANGED <<job_id, kwargs, pc, temp_dir, preprocessed_images, model_url,
                   result_metadata, exc, retval, fs, model_cache, trace, cleanup,
                   loaders>>

\* worker.py 192-199: the job removes the directory temp_dir names, when it
\* names one that exists; a failed rmtree removes nothing or the content only.
JobFinally(w) ==
    /\ workers[w].pc = "finally"
    /\ LET d == workers[w].temp_dir
           exists == ~IsNone(d) /\ d[1] \in DOMAIN fs
       IN  \/ /\ ~exists
              /\ workers' = [workers EXCEPT ![w].pc = "done", ![w].cleanup = "skipped"]
              /\ fs' = fs
           \/ /\ exists
              /\ workers' = [workers EXCEPT ![w].pc = "done", ![w].cleanup = "removed"]
              /\ fs' = Remove(fs, Tree(fs, d[1]))
           \/ /\ exists
              /\ workers' = [workers EXCEPT ![w].pc = "done", ![w].cleanup = "failed"]
              /\ fs' \in {fs, Remove(fs, Tree(fs, d[1]) \ {d[1]})}
    /\ UNCHANGED <<jobVars, model_cache, trace, loaders>>

WorkspaceNext ==
    \E w \in Workers :
        \/ JobMakeTempDir(w)
        \/ JobPreprocess(w)
        \/ JobGenerate(w)
        \/ JobUpload(w)
        \/ JobFinally(w)

WorkspaceSpec == WorkspaceInit /\ [][WorkspaceNext]_vars

\* ============================================================== properties
ReportIdx == {i \in DOMAIN trace : IsReport(trace[i])}
StatusIdx(status) == {i \in ReportIdx : trace[i].payload.status = status}
TerminalIdx == StatusIdx("completed") \cup StatusIdx("failed")
FailedCalls == {i \in DOMAIN trace : IsCall(trace[i]) /\ ~trace[i].ok}

\* C1: in every execution exactly one report with status completed or failed is
\* emitted, never both, and no report of any status follows it: at most one
\* terminal report exists at any time, it is the last report of the trace, and
\* a finished task has emitted exactly one.
C1_ExactlyOneTerminalReport ==
    /\ Cardinality(TerminalIdx) <= 1
    /\ \A i \in TerminalIdx : \A j \in ReportIdx : j <= i
    /\ pc = "done" => Cardinality(TerminalIdx) = 1

\* C1 witness: a finished task whose failed report followed processing reports
\* and a failed stage.
C1_Witness ==
    /\ pc = "done"
    /\ StatusIdx("failed") # {}
    /\ StatusIdx("processing") # {}
    /\ FailedCalls # {}

\* C2: once a step has raised, the task emits exactly one failed report, which
\* carries str(e) as its error message and the exception's class name as the
\* error_type of its metadata, before the exception leaves the task; a failed
\* stage call always raises, and a task that raised returned no result.
C2_FailureReportedThenRaised ==
    /\ FailedCalls # {} => ~IsNone(exc)
    /\ ~IsNone(exc) => IsNone(retval)
    /\ (~IsNone(exc) /\ pc = "except") => StatusIdx("failed") = {}
    /\ (~IsNone(exc) /\ pc \in {"finally", "done"}) =>
            /\ Cardinality(StatusIdx("failed")) = 1
            /\ \A i \in StatusIdx("failed") :
                /\ "errorMessage" \in DOMAIN trace[i].payload
                /\ trace[i].payload.errorMessage = exc[1].msg
                /\ trace[i].payload.errorMessage # ""
                /\ "metadata" \in DOMAIN trace[i].payload
                /\ trace[i].payload.metadata = [error_type |-> exc[1].type]
    /\ IsNone(exc) => StatusIdx("failed") = {}

\* C2 witness: the task raised the TypeError of building the result, after a
\* successful publish.
C2_Witness ==
    /\ Raised
    /\ exc[1].type = "TypeError"
    /\ ~IsNone(model_url)

\* C3 as stated: after the task terminates, the workspace it created no longer
\* exists.
C3_WorkspaceAlwaysRemoved ==
    (pc = "done" /\ ~IsNone(temp_dir)) => temp_dir[1] \notin DOMAIN fs

\* C3 amended: after the task terminates, nothing of the workspace it created
\* exists, unless the removal itself raised.
C3_WorkspaceRemovedUnlessRmtreeFails ==
    (pc = "done" /\ ~IsNone(temp_dir) /\ cleanup # "failed") =>
        Tree(fs, temp_dir[1]) = {}

\* C3 witness: a task that failed after creating and filling its workspace has
\* terminated with the workspace removed.
C3_Witness ==
    /\ Raised
    /\ ~IsNone(temp_dir)
    /\ ~IsNone(preprocessed_images)
    /\ cleanup = "removed"
    /\ Tree(fs, temp_dir[1]) = {}

\* The progress values of the reports with the given indices, in trace order.
RECURSIVE ProgressOf(_, _)
ProgressOf(idx, i) ==
    IF i > Len(trace) THEN <<>>
    ELSE IF i \in idx /\ "progress" \in DOMAIN trace[i].payload
    THEN <<trace[i].payload.progress>> \o ProgressOf(idx, i + 1)
    ELSE ProgressOf(idx, i + 1)
NonDecreasing(seq) == \A i, j \in DOMAIN seq : i < j => seq[i] <= seq[j]

\* C4: in every execution the progress values of the processing reports are
\* non-decreasing (and each processing report carries one); in every successful
\* execution the progress values of all reports are non-decreasing and the last
\* of them is 100.
C4_ProgressMonotonic ==
    /\ \A i \in StatusIdx("processing") : "progress" \in DOMAIN trace[i].payload
    /\ NonDecreasing(ProgressOf(StatusIdx("processing"), 1))
    /\ Returned =>
        LET all == ProgressOf(ReportIdx, 1)
        IN  /\ NonDecreasing(all)
            /\ Len(all) > 0
            /\ all[Len(all)] = 100

\* C4 witness: a successful execution that emitted its eight reports.
C4_Witness == Returned /\ ProgressOf(ReportIdx, 1) = <<5, 10, 40, 50, 80, 85, 95, 100>>

\* A required field is missing or empty.
MissingRequired == ~TruthyStr(shop) \/ ~TruthyId(product_id) \/ ~TruthyList(image_urls)

\* C5: when shop, product_id or image_urls is missing or empty the task fails
\* at once: no processing report is emitted, no workspace is created, no stage
\* is called, nothing is returned, and the task ends raising after one failed
\* report.
C5_MissingFieldFailsImmediately ==
    MissingRequired =>
        /\ StatusIdx("processing") = {}
        /\ StatusIdx("completed") = {}
        /\ Calls = <<>>
        /\ IsNone(temp_dir)
        /\ fs = EmptyDict
        /\ IsNone(retval)
        /\ pc \in {"start", "except", "finally", "done"}
        /\ pc # "start" => ~IsNone(exc)
        /\ pc \in {"finally", "done"} => Cardinality(StatusIdx("failed")) = 1

\* C5 witness: a job submitted without product_id, but with a shop and images,
\* has ended raising.
C5_Witness ==
    /\ Raised
    /\ IsNone(product_id)
    /\ TruthyStr(shop)
    /\ TruthyList(image_urls)
    /\ StatusIdx("failed") # {}

\* The indices of the calls of a stage.
CallIdx(name) == {i \in DOMAIN trace : IsCall(trace[i]) /\ trace[i].name = name}
\* The normalizer was called and no URL normalized.
NoImageNormalized ==
    \E i \in CallIdx("preprocess_images") :
        \A k \in DOMAIN trace[i].normalized : ~trace[i].normalized[k]

\* C6: when normalization fails for every URL of the job, the stage raises the
\* no-usable-images error, the failed report carries its message, and neither
\* reconstruction (with its export) nor publish is called: no asset file and no
\* bucket change.
C6_NoUsableImagesFailsJob ==
    NoImageNormalized =>
        /\ ~IsNone(exc)
        /\ exc[1].msg = "Failed to preprocess any images"
        /\ ~Called("generate_3d_from_multiple_images")
        /\ ~Called("upload_model_to_supabase")
        /\ temp_dir[1] \o <<"model.glb">> \notin DOMAIN fs
        /\ bucket \in InitialBuckets
        /\ StatusIdx("completed") = {}
        /\ pc \in {"except", "finally", "done"}
        /\ pc \in {"finally", "done"} =>
            \E i \in StatusIdx("failed") :
                /\ "errorMessage" \in DOMAIN trace[i].payload
                /\ trace[i].payload.errorMessage = "Failed to preprocess any images"

\* C6 witness: a job of two URLs, none of which normalized, has ended with its
\* failed report.
C6_Witness ==
    /\ pc = "done"
    /\ NoImageNormalized
    /\ Len(image_urls[1]) = 2
    /\ StatusIdx("failed") # {}

\* The stage was called and returned.
Succeeded(name) == \E i \in CallIdx(name) : trace[i].ok
\* Validation passed, at least one image normalized, and reconstruction, export
\* and publish succeeded.
AllStagesSucceeded ==
    /\ ~MissingRequired
    /\ Succeeded("preprocess_images")
    /\ Succeeded("generate_3d_from_multiple_images")
    /\ Succeeded("upload_model_to_supabase")
\* A completed report with progress 100 carries the URL publish returned.
CompletedReportCarriesUrl ==
    \E i \in StatusIdx("completed") :
        /\ "progress" \in DOMAIN trace[i].payload
        /\ trace[i].payload.progress = 100
        /\ "modelUrl" \in DOMAIN trace[i].payload
        /\ trace[i].payload.modelUrl = model_url[1]
        /\ trace[i].payload.modelUrl # ""

\* C7: every job that passes validation and whose stages all succeed, its
\* metadata being a mapping, absent or null, ends with a completed report of
\* progress 100 carrying the URL publish returned, and returns a completed
\* result.
C7_SuccessfulStagesComplete ==
    (pc = "done" /\ AllStagesSucceeded) =>
        /\ Returned
        /\ ~IsNone(retval)
        /\ retval[1].status = "completed"
        /\ CompletedReportCarriesUrl

\* C7, for the jobs whose metadata is absent or a mapping.
C7_CompleteUnlessMetadataNull ==
    (pc = "done" /\ AllStagesSucceeded /\ ~IsNone(metadata)) =>
        /\ Returned
        /\ ~IsNone(retval)
        /\ retval[1].status = "completed"
        /\ CompletedReportCarriesUrl

\* The number of URLs the normalizer call reports as normalized.
NormalizedCount ==
    LET i == CHOOSE c \in CallIdx("preprocess_images") : TRUE
    IN  Cardinality({k \in DOMAIN trace[i].normalized : trace[i].normalized[k]})
PipelineKeys == {"quality", "images_processed", "product_handle"}

\* C8: the metadata of the completed report holds the quality argument of the
\* job, images_processed equal to the number of URLs that normalized, the
\* product handle, and every caller-supplied entry under a name other than these
\* three; it holds nothing else.
C8_CompletedMetadata ==
    \A i \in StatusIdx("completed") :
        /\ "metadata" \in DOMAIN trace[i].payload
        /\ LET md == trace[i].payload.metadata
               caller == metadata[1]
           IN  /\ DOMAIN md = PipelineKeys \cup DOMAIN caller
               /\ md.quality = quality
               /\ md.images_processed = NormalizedCount
               /\ md.product_handle = product_handle
               /\ \A k \in DOMAIN caller \ PipelineKeys : md[k] = caller[k]

\* C8 witness: a completed report of a job that submitted two URLs of which one
\* normalized, and whose caller metadata names quality, images_processed and
\* product_handle itself.
C8_Witness ==
    /\ StatusIdx("completed") # {}
    /\ Len(image_urls[1]) = 2
    /\ NormalizedCount = 1
    /\ PipelineKeys \subseteq DOMAIN metadata[1]
    /\ "productTitle" \in DOMAIN metadata[1]

\* The report at index i is a processing report with the given progress.
IsProgress(i, p) ==
    /\ IsReport(trace[i])
    /\ trace[i].payload.status = "processing"
    /\ trace[i].payload.progress = p
IsCallOf(i, name) == IsCall(trace[i]) /\ trace[i].name = name
IsTerminal(i) == IsReport(trace[i]) /\ trace[i].payload.status \in {"completed", "failed"}
\* What follows the report at index i, by the order of the statements of
\* generate_3d_model.
FollowedAsWritten(i) ==
    IF IsTerminal(i) THEN i = Len(trace)
    ELSE i < Len(trace) =>
        CASE IsProgress(i, 5) -> IsCallOf(i + 1, "mkdtemp")
          [] IsProgress(i, 10) -> IsCallOf(i + 1, "preprocess_images")
          [] IsProgress(i, 40) -> IsProgress(i + 1, 50)
          [] IsProgress(i, 50) -> IsCallOf(i + 1, "generate_3d_from_multiple_images")
          [] IsProgress(i, 80) -> IsProgress(i + 1, 85)
          [] IsProgress(i, 85) -> IsCallOf(i + 1, "upload_model_to_supabase")
          [] IsProgress(i, 95) -> IsTerminal(i + 1)
          [] OTHER -> FALSE
ReportKey(i) ==
    <<trace[i].payload.status,
      IF "progress" \in DOMAIN trace[i].payload THEN trace[i].payload.progress ELSE -1>>

\* C9: a report whose delivery fails makes update_job_status return False and
\* raises nothing: whatever the delivery of a report, what follows it in the
\* trace is what the statements of the task put next, no report is emitted
\* twice, and the finished job is completed exactly when validation and every
\* stage succeeded and the result could be built.
C9_DeliveryFailureIgnored ==
    /\ \A i \in ReportIdx : trace[i].ret = trace[i].delivered
    /\ \A i \in ReportIdx : FollowedAsWritten(i)
    /\ \A i, j \in ReportIdx : ReportKey(i) = ReportKey(j) => i = j
    /\ pc = "done" =>
        (StatusIdx("completed") # {} <=> (AllStagesSucceeded /\ ~IsNone(metadata)))
    /\ pc = "done" =>
        (StatusIdx("failed") # {} <=> ~(AllStagesSucceeded /\ ~IsNone(metadata)))

\* C9 witness: a job returned its completed result although the delivery of
\* one of its processing reports had failed.
C9_Witness ==
    /\ Returned
    /\ StatusIdx("completed") # {}
    /\ \E i \in StatusIdx("processing") : ~trace[i].delivered /\ ~trace[i].ret

\* C10: under the fairness of FairSpec, a job that has emitted a processing
\* report eventually emits a terminal report; a job that ended on an exception
\* has failed, never processing, as the status of its last report.
C10_ProcessingLeadsToTerminal ==
    /\ (StatusIdx("processing") # {}) ~> (TerminalIdx # {})
    /\ [](Raised =>
            /\ ReportIdx # {}
            /\ \A i \in ReportIdx :
                (\A j \in ReportIdx : j <= i) => trace[i].payload.status = "failed")

\* C10 witness: a job that had reported processing ended on the exception of
\* the reconstruction stage, its terminal report emitted.
C10_Witness ==
    /\ Raised
    /\ StatusIdx("processing") # {}
    /\ \E i \in CallIdx("generate_3d_from_multiple_images") : ~trace[i].ok
    /\ TerminalIdx # {}

\* C11: when several threads call load_triposr_model while the cache is empty,
\* the model is loaded at most once (at most one caller runs the load) and the
\* cached handle, once set, is never assigned again.
LoadEvents == {i \in DOMAIN trace : trace[i].kind = "load"}
StoreEvents == {i \in DOMAIN trace : trace[i].kind = "store"}
C11_ModelLoadedAtMostOnce ==
    /\ Cardinality(LoadEvents) <= 1
    /\ \A i \in StoreEvents : ~trace[i].overwrote

\* The reconstruction calls of the job, and those made in placeholder mode: the
\* load failed in the call, or the call found the placeholder in the cache.
GenerateIdx == CallIdx("generate_3d_from_multiple_images")
InPlaceholderMode(e) == e.load = "failed" \/ e.cache = Some(Placeholder)
OpenOrExportFailures ==
    {"3D generation failed: cannot identify image file",
     "3D generation failed: GLB export failed: cannot encode mesh",
     "3D generation failed: GLB export failed: [Errno 28] No space left on device"}

\* C12: a failed model load raises nothing and leaves the placeholder in the
\* cache; a call that finds the placeholder there does not run the load again;
\* a call in placeholder mode runs no inference and builds the cube of 8
\* vertices, 12 triangular faces and 8 distinct vertex colours, so that it can
\* fail only on opening the image or on the export; and a job in placeholder
\* mode whose stages all succeed (its metadata being absent or a mapping, see
\* C7) ends completed, the published object being the cube.
C12_PlaceholderFallback ==
    /\ Len(create_placeholder_mesh.vertices) = 8
    /\ Len(create_placeholder_mesh.faces) = 12
    /\ \A k \in 1..12 :
        LET face == create_placeholder_mesh.faces[k]
        IN  Cardinality({face[j] : j \in 1..3}) = 3 /\ \A j \in 1..3 : face[j] \in 0..7
    /\ Len(create_placeholder_mesh.vertex_colors) = 8
    /\ Cardinality({create_placeholder_mesh.vertex_colors[k] : k \in 1..8}) = 8
    /\ \A i \in GenerateIdx :
        LET e == trace[i] IN
        InPlaceholderMode(e) =>
            /\ model_cache = Some(Placeholder)
            /\ e.cache = Some(Placeholder) => e.load = "none"
            /\ ~e.inference
            /\ e.ok => e.mesh = Some(create_placeholder_mesh)
            /\ ~e.ok => ~IsNone(exc) /\ exc[1].msg \in OpenOrExportFailures
            /\ (pc = "done" /\ AllStagesSucceeded /\ ~IsNone(metadata)) =>
                /\ Returned
                /\ CompletedReportCarriesUrl
                /\ bucket[StorageKey(shop[1], product_id[1], variant_id)]
                     = Glb(create_placeholder_mesh)

\* C12 witness: a job run in a process whose cache already held the placeholder
\* has built the cube without a load and ended with its completed report.
C12_Witness ==
    /\ pc = "done"
    /\ StatusIdx("completed") # {}
    /\ \E i \in GenerateIdx :
        /\ trace[i].cache = Some(Placeholder)
        /\ trace[i].load = "none"
        /\ trace[i].mesh = Some(create_placeholder_mesh)

\* A job in whose reconstruction call the load failed has ended completed.
C12_LoadFailedInJob ==
    /\ pc = "done"
    /\ StatusIdx("completed") # {}
    /\ \E i \in GenerateIdx : trace[i].load = "failed" /\ trace[i].ok

\* The key the publishes of the execution go to.
PublishKey == StorageKey(shop[1], product_id[1], variant_id)
\* The publish is not refused for a reason of its own: the client was made, the
\* file is there and the service took the upload.
Accepted(e) ==
    /\ e.outcome.client = "ok"
    /\ e.path \in DOMAIN fs
    /\ e.outcome.upload = "ok"
Object(b, key) == IF key \in DOMAIN b THEN Some(b[key]) ELSE None

\* C13: a publish to a key is never refused because of what the key holds (an
\* object of an earlier publish, an object from before, or none; removed by the
\* call or not): it raises only when the client, the file or the upload itself
\* fails. After a second publish to the same key that returned, the bucket
\* holds under that key the one object whose content is the second call's file,
\* every other key is as it was, and the URL the second call returned is the
\* public URL of the key.
C13_PublishTwiceUpserts ==
    \A j \in DOMAIN trace :
        LET e == trace[j] IN
        /\ Accepted(e) <=> IsNone(e.raised)
        /\ (j > 1 /\ IsNone(e.raised)) =>
            /\ DOMAIN e.after = DOMAIN e.before \cup {PublishKey}
            /\ e.after[PublishKey] = fs[e.path]
            /\ \A k \in DOMAIN e.before \ {PublishKey} : e.after[k] = e.before[k]
            /\ e.url = Some(PublicUrl(PublishKey))
            /\ (j = Len(trace)) => (bucket = e.after /\ model_url = e.url)

\* C13 witness: two publishes to one key have returned; the second brought
\* another file than the first, its remove failed so that the upload met the
\* first one's object, and the key now holds the second file.
C13_Witness ==
    /\ Len(trace) = 2
    /\ IsNone(trace[1].raised) /\ IsNone(trace[2].raised)
    /\ trace[1].path # trace[2].path
    /\ trace[2].outcome.remove = "failed"
    /\ Object(trace[2].before, PublishKey) = Some(fs[trace[1].path])
    /\ Object(bucket, PublishKey) = Some(fs[trace[2].path])

LastSegment(id) == id[Len(id)]
\* A variant is given: the argument is there, not null and not the empty string.
VariantGiven == ~IsNone(variant_id) /\ variant_id[1] # <<"">>
ExpectedKey ==
    shop[1] \o "/" \o LastSegment(product_id[1])
    \o (IF VariantGiven THEN "/" \o LastSegment(variant_id[1]) ELSE "")
    \o ".glb"

\* C14: the key upload_model_to_supabase computes (it computes one whenever the
\* storage client could be made) is the shop, "/", the last "/"-separated
\* segment of product_id, then "/" and the last segment of variant_id when a
\* variant is given, then ".glb"; it is the same for every call with these
\* three arguments, whatever the file, the bucket and the outcome of the call;
\* gid://shopify/Product/123 with gid://shopify/ProductVariant/456 under
\* acme.test gives acme.test/123/456.glb.
C14_StorageKey ==
    \A j \in DOMAIN trace :
        LET e == trace[j] IN
        /\ IsNone(e.key) <=> e.outcome.client = "failed"
        /\ ~IsNone(e.key) =>
            /\ e.key[1] = ExpectedKey
            /\ \A k \in DOMAIN trace : ~IsNone(trace[k].key) => trace[k].key = e.key
            /\ (product_id[1] = ProductGid /\ variant_id = Some(VariantGid)) =>
                    e.key[1] = "acme.test/123/456.glb"
            /\ ~IsNone(e.url) => e.url[1] = PublicUrl(ExpectedKey)

\* C14 witness: two calls with the product and variant gids under acme.test,
\* with different files and different outcomes, have computed the key
\* acme.test/123/456.glb.
C14_Witness ==
    /\ Len(trace) = 2
    /\ product_id[1] = ProductGid /\ variant_id = Some(VariantGid)
    /\ trace[1].path # trace[2].path
    /\ IsNone(trace[1].raised) /\ ~IsNone(trace[2].raised)
    /\ trace[1].key = Some("acme.test/123/456.glb")
    /\ trace[2].key = Some("acme.test/123/456.glb")

\* The calls that ran the inference and got a mesh from it.
InferredIdx == {j \in DOMAIN trace : trace[j].inference /\ ~IsNone(trace[j].mesh)}
ExpectedResolution ==
    CASE quality = Some("fast") -> 128
      [] quality = Some("balanced") -> 192
      [] quality = Some("quality") -> 256
      [] OTHER -> 192

\* C15: the mesh is extracted at resolution 128 when the quality argument is
\* fast, 192 when it is balanced, 256 when it is quality, and 192 for every
\* other value (an unknown preset, the empty string, null), and that mesh is the
\* one exported.
C15_QualityResolution ==
    \A j \in InferredIdx :
        LET e == trace[j] IN
        /\ e.mesh[1] = ExtractedMesh(ExpectedResolution)
        /\ e.ok => fs[e.output_path] = "glb:triposr:" \o ToString(ExpectedResolution)

\* C15 witness: with the preset quality, a call has extracted its mesh at 256
\* and exported it.
C15_Witness ==
    /\ quality = Some("quality")
    /\ \E j \in InferredIdx :
        /\ trace[j].ok
        /\ trace[j].mesh = Some(ExtractedMesh(256))
        /\ fs[trace[j].output_path] = "glb:triposr:256"

\* The path preprocess_images gives the k-th URL of the job (k from 1).
NormalizedPath(k) ==
    temp_dir[1] \o <<"preprocessed", "preprocessed_" \o ToString(k - 1) \o ".png">>
\* The paths of the URLs the call normalized, in the order of the URLs.
NormalizedPaths(e) ==
    LET oks == SelectSeq([k \in 1..Len(image_urls[1]) |-> k], LAMBDA k : e.normalized[k])
    IN  [m \in 1..Len(oks) |-> NormalizedPath(oks[m])]

\* C16: preprocess_images goes through every URL of the list, whatever happened
\* to the ones before: the list it returns holds, in order, the path of each URL
\* whose download, background removal, crop and save succeeded and of no other,
\* each of these files is in the workspace and none is there for a URL that
\* failed; it raises ("Failed to preprocess any images") exactly when no URL
\* succeeded.
C16_BatchSurvivesImageFailures ==
    \A i \in CallIdx("preprocess_images") :
        LET e == trace[i]
            oks == {k \in DOMAIN e.normalized : e.normalized[k]}
        IN  /\ DOMAIN e.normalized = 1..Len(image_urls[1])
            /\ e.ok <=> oks # {}
            /\ e.ok => preprocessed_images = Some(NormalizedPaths(e))
            /\ ~e.ok =>
                /\ IsNone(preprocessed_images)
                /\ exc = Some(Exc("Exception", "Failed to preprocess any images"))
            /\ pc # "done" =>
                \A k \in DOMAIN e.normalized : (NormalizedPath(k) \in DOMAIN fs) <=> (k \in oks)

\* C16 witness: of two URLs the first failed and the second was normalized all
\* the same; the call returned the second one's path alone.
C16_Witness ==
    /\ pc = "report_preprocessed"
    /\ Len(image_urls[1]) = 2
    /\ \E i \in CallIdx("preprocess_images") :
        /\ ~trace[i].normalized[1]
        /\ trace[i].normalized[2]
    /\ preprocessed_images = Some(<<NormalizedPath(2)>>)
    /\ NormalizedPath(2) \in DOMAIN fs

\* C17: when the removal of the workspace fails, the task ends as it would
\* have: after a completed report it returns its completed result (no failed
\* report, nothing raised); after a failure it raises the exception its failed
\* report describes, not the one of the removal.
C17_CleanupFailureKeepsOutcome ==
    (pc = "done" /\ cleanup = "failed") =>
        /\ StatusIdx("completed") # {} =>
            /\ Returned
            /\ StatusIdx("failed") = {}
            /\ retval = Some([job_id |-> job_id, status |-> "completed",
                              model_url |-> model_url[1],
                              metadata |-> result_metadata[1]])
        /\ StatusIdx("completed") = {} =>
            /\ Raised
            /\ IsNone(retval)
            /\ \E i \in StatusIdx("failed") :
                /\ trace[i].payload.errorMessage = exc[1].msg
                /\ trace[i].payload.metadata = [error_type |-> exc[1].type]

\* C17 witness: the pipeline completed, rmtree raised, and the task returned
\* its result with the workspace still there.
C17_Witness ==
    /\ pc = "done"
    /\ cleanup = "failed"
    /\ StatusIdx("completed") # {}
    /\ Returned
    /\ temp_dir[1] \in DOMAIN fs

\* The pipeline failed in the publish stage, rmtree raised, and the task raised
\* the publish error.
C17_FailedJobCleanupFailed ==
    /\ pc = "done"
    /\ cleanup = "failed"
    /\ Raised
    /\ exc[1].msg = "Supabase upload failed: storage error"

\* How often a call emptied the accelerator cache, and whether it did so first
\* and last of all it did.
Releases(e) == Cardinality({k \in DOMAIN e.events : e.events[k] = "empty_cache"})
ReleasedBeforeAndAfter(e) ==
    /\ Releases(e) = 2
    /\ e.events[1] = "empty_cache"
    /\ e.events[Len(e.events)] = "empty_cache"

\* C18: every call of the adapter's generate_3d_model on a device with
\* accelerator memory (cuda, mps) releases that memory once before the model is
\* loaded and the inference starts, and once more as the last thing before it
\* returns or raises, whether the load, the opening of the image, the inference
\* or the export failed or none did.
C18_AcceleratorMemoryReleased ==
    \A j \in DOMAIN trace :
        trace[j].device # "cpu" => ReleasedBeforeAndAfter(trace[j])

\* C18, for the calls made where CUDA is available; elsewhere nothing is
\* released.
C18_ReleasedOnCudaOnly ==
    \A j \in DOMAIN trace :
        IF trace[j].device = "cuda"
        THEN ReleasedBeforeAndAfter(trace[j])
        ELSE Releases(trace[j]) = 0

\* A call on a CUDA device whose inference raised has released the memory
\* before and after.
C18_CudaInferenceFailed ==
    \E j \in DOMAIN trace :
        /\ trace[j].device = "cuda"
        /\ ~trace[j].ok
        /\ trace[j].events = <<"empty_cache", "load", "open", "infer", "empty_cache">>

\* The calls whose export raised: the encoding failed (nothing was written), or
\* the write failed part of the way.
ExportFailedIdx ==
    {j \in DOMAIN trace : trace[j].export \in {"encode_failed", "write_failed"}}

\* C19: when export_mesh_as_glb fails it raises, and there is no file at the
\* output path, whole or in part.
C19_FailedExportLeavesNoFile ==
    \A j \in ExportFailedIdx :
        /\ ~trace[j].ok
        /\ trace[j].output_path \notin DOMAIN fs

\* C19, as far as it holds: a failed export raises "GLB export failed: ..."
\* (wrapped by the adapter), and a file is at the output path only when the
\* write had begun, holding what was written until then.
C19_FailedExportRaises ==
    \A j \in ExportFailedIdx :
        LET e == trace[j] IN
        /\ ~e.ok
        /\ e.raised[1].msg \in OpenOrExportFailures
        /\ e.raised[1].msg # "3D generation failed: cannot identify image file"
        /\ IF e.export = "write_failed"
           THEN e.output_path \in DOMAIN fs /\ fs[e.output_path] = "partial"
           ELSE e.output_path \notin DOMAIN fs

\* C20: every call of upload_model_to_supabase either returns a URL or raises,
\* never both and never neither. When it returned, the key holds the whole new
\* file and the URL is the public URL of the key. When it raised, the key holds
\* what it held before the call (an object or none) or holds nothing. In both
\* cases no other key of the bucket has changed.
C20_PublishAllOrNothing ==
    \A j \in DOMAIN trace :
        LET e == trace[j] IN
        /\ IsNone(e.url) <=> ~IsNone(e.raised)
        /\ ~IsNone(e.url) =>
            /\ Object(e.after, PublishKey) = Some(fs[e.path])
            /\ e.url = Some(PublicUrl(PublishKey))
        /\ ~IsNone(e.raised) =>
            \/ Object(e.after, PublishKey) = Object(e.before, PublishKey)
            \/ IsNone(Object(e.after, PublishKey))
        /\ \A k \in (DOMAIN e.before \cup DOMAIN e.after) \ {PublishKey} :
            Object(e.after, k) = Object(e.before, k)

\* C20 witness: a publish to a key that held an object removed it, failed in
\* the upload and raised, leaving the key empty; the bucket still shows it.
C20_Witness ==
    /\ trace # <<>>
    /\ LET e == trace[Len(trace)] IN
        /\ ~IsNone(e.raised)
        /\ e.outcome.upload = "failed"
        /\ ~IsNone(Object(e.before, PublishKey))
        /\ IsNone(Object(e.after, PublishKey))
        /\ bucket = e.after

\* A publish whose remove and upload both failed has raised and left the old
\* object at the key.
C20_OldObjectUntouched ==
    /\ trace # <<>>
    /\ LET e == trace[Len(trace)] IN
        /\ ~IsNone(e.raised)
        /\ e.outcome.remove = "failed"
        /\ Object(e.after, PublishKey) = Some("glb:old")

DeleteIdx == {j \in DOMAIN trace : trace[j].kind = "delete"}
PublishIdx == {j \in DOMAIN trace : trace[j].kind = "publish"}

\* C21: delete_model_from_supabase raises nothing. It returns True exactly when
\* the client was made and the remove returned; when the credentials are
\* missing or the remove raised (a storage error, a missing object reported as
\* an error) it returns False, and the bucket is as it was.
C21_DeleteNeverRaises ==
    \A j \in DeleteIdx :
        LET e == trace[j] IN
        /\ IsNone(e.raised)
        /\ ~IsNone(e.ret)
        /\ e.ret[1] <=> (e.outcome.client = "ok" /\ e.outcome.remove = "ok")
        /\ ~e.ret[1] => e.after = e.before
        /\ (j = Len(trace)) => IsNone(exc)

\* C21 witness: a delete whose remove the service refused has returned False,
\* and the object is still at the key.
C21_Witness ==
    /\ trace # <<>>
    /\ LET e == trace[Len(trace)] IN
        /\ e.kind = "delete"
        /\ e.outcome.client = "ok" /\ e.outcome.remove = "failed"
        /\ e.ret = Some(FALSE)
        /\ IsNone(exc)
        /\ PublishKey \in DOMAIN bucket

\* A delete made without credentials has returned False.
C21_NoCredentials ==
    \E j \in DeleteIdx : trace[j].outcome.client = "failed" /\ trace[j].ret = Some(FALSE)

\* C27: for the same (shop, product_id, variant_id) a delete computes the key a
\* publish computes. A delete that returned True after a publish that returned
\* leaves no object at the key the publish wrote, and every other key of the
\* bucket as it was.
C27_DeleteUndoesPublish ==
    \A j \in DeleteIdx :
        LET e == trace[j] IN
        /\ \A i \in PublishIdx :
              (~IsNone(trace[i].key) /\ ~IsNone(e.key)) => e.key = trace[i].key
        /\ \A i \in PublishIdx :
              (i < j /\ IsNone(trace[i].raised) /\ e.ret = Some(TRUE)) =>
                  /\ IsNone(Object(e.after, trace[i].key[1]))
                  /\ \A k \in (DOMAIN e.before \cup DOMAIN e.after) \ {trace[i].key[1]} :
                        Object(e.after, k) = Object(e.before, k)
                  /\ (j = Len(trace)) => bucket = e.after

\* C27 witness: a model with a variant was published, the delete that followed
\* returned True, and the bucket holds the other shop's object only.
C27_Witness ==
    /\ Len(trace) = 2
    /\ trace[1].kind = "publish" /\ IsNone(trace[1].raised)
    /\ trace[2].kind = "delete" /\ trace[2].ret = Some(TRUE)
    /\ VariantGiven
    /\ Object(trace[2].before, PublishKey) = Some(fs[trace[1].path])
    /\ bucket = OtherObjects

\* The first URL of the job (from 1) that the normalization call normalized.
EarliestNormalized(e) ==
    CHOOSE k \in DOMAIN e.normalized :
        /\ e.normalized[k]
        /\ \A m \in DOMAIN e.normalized : e.normalized[m] => k <= m

\* C22: the reconstruction of a job opens one image, the first element of the
\* list the normalization returned, whatever the list holds after it; that is
\* the normalized image of the earliest URL of the job whose normalization
\* succeeded.
C22_ReconstructsFromFirstImage ==
    \A i \in GenerateIdx :
        \E p \in CallIdx("preprocess_images") :
            /\ p < i
            /\ trace[p].ok
            /\ trace[i].opened = <<preprocessed_images[1][1]>>
            /\ trace[i].opened = <<NormalizedPath(EarliestNormalized(trace[p]))>>

\* C22 witness: both URLs of a job were normalized and the reconstruction,
\* which returned, opened the first one's image and not the second's.
C22_Witness ==
    /\ ~IsNone(preprocessed_images)
    /\ Len(preprocessed_images[1]) = 2
    /\ \E i \in GenerateIdx :
        /\ trace[i].ok
        /\ trace[i].opened = <<NormalizedPath(1)>>
        /\ trace[i].opened # <<NormalizedPath(2)>>

\* The first URL failed, the second was normalized and is the one opened.
C22_SecondUrlOpened ==
    /\ ~IsNone(preprocessed_images)
    /\ \E i \in GenerateIdx : trace[i].opened = <<NormalizedPath(2)>>

\* An event of the trace by name: a call by the function called, a report by
\* its status and progress.
EventLabel(e) ==
    IF IsCall(e) THEN e.name
    ELSE e.payload.status \o ":" \o
         (IF "progress" \in DOMAIN e.payload THEN ToString(e.payload.progress) ELSE "")
TraceLabels == [i \in DOMAIN trace |-> EventLabel(trace[i])]
SuccessOrder ==
    <<"processing:5", "mkdtemp", "processing:10", "preprocess_images",
      "processing:40", "processing:50", "generate_3d_from_multiple_images",
      "processing:80", "processing:85", "upload_model_to_supabase",
      "processing:95", "completed:100">>
IsPrefix(p, q) == Len(p) <= Len(q) /\ \A i \in DOMAIN p : p[i] = q[i]
\* The trace without its failed report, if it ends with one.
BeforeFailure ==
    IF trace # <<>> /\ IsReport(trace[Len(trace)])
       /\ trace[Len(trace)].payload.status = "failed"
    THEN SubSeq(TraceLabels, 1, Len(trace) - 1)
    ELSE TraceLabels

\* C23: the events of a job that returned are, in this order, report 5, the
\* creation of the workspace, report 10, normalization, report 40, report 50,
\* reconstruction and export, report 80, report 85, publish, report 95 and the
\* completed report with 100, each stage having returned, and the removal of
\* the workspace comes after them. At any time the events so far, a final
\* failed report apart, are a beginning of that sequence, and a call that
\* raised is followed by the failed report or by nothing: no checkpoint follows
\* a stage that failed and no stage starts before the one before it returned.
C23_StageOrder ==
    /\ Returned =>
        /\ TraceLabels = SuccessOrder
        /\ \A i \in DOMAIN trace : IsCall(trace[i]) => trace[i].ok
        /\ cleanup \in {"removed", "failed"}
    /\ IsPrefix(BeforeFailure, SuccessOrder)
    /\ \A i \in DOMAIN trace :
        (IsCall(trace[i]) /\ ~trace[i].ok) =>
            \/ i = Len(trace)
            \/ i + 1 = Len(trace) /\ BeforeFailure # TraceLabels
    /\ cleanup # "none" => (pc = "done" /\ trace # <<>> /\ IsTerminal(Len(trace)))

\* C23 witness: a job of two URLs returned, its twelve events are there in
\* order and its workspace was removed after them.
C23_Witness ==
    /\ Returned
    /\ Len(image_urls[1]) = 2
    /\ Len(trace) = 12
    /\ IsProgress(6, 50) /\ IsCallOf(7, "generate_3d_from_multiple_images")
    /\ StatusIdx("completed") = {12}
    /\ cleanup = "removed"

\* C25: no step of a job changes the bucket as long as the publish has not been
\* called: a job that fails in validation, workspace creation, normalization,
\* reconstruction or export leaves every object of the bucket as it found it.
C25_BucketUntouchedBeforePublish ==
    [][(~Called("upload_model_to_supabase"))' => bucket' = bucket]_vars

\* C25 witness: a job whose reconstruction raised has ended, the publish was
\* never called, and the object an earlier job published is still in the bucket.
C25_Witness ==
    /\ Raised
    /\ ~Called("upload_model_to_supabase")
    /\ \E i \in GenerateIdx : ~trace[i].ok
    /\ bucket # EmptyDict
    /\ bucket \in InitialBuckets

\* The calls that cropped (the image had a foreground).
CropIdx == {i \in DOMAIN trace : trace[i].kind = "crop" /\ ~IsNone(trace[i].box)}
\* How many columns or rows of the crop lie beyond the bounding box, side by side.
LeftMargin(e) == e.image.foreground[1].x_min - e.box[1].left
RightMargin(e) == (e.box[1].right - 1) - e.image.foreground[1].x_max
TopMargin(e) == e.image.foreground[1].y_min - e.box[1].upper
BottomMargin(e) == (e.box[1].lower - 1) - e.image.foreground[1].y_max
\* The bounding box is at least Padding pixels away from every edge of the image.
AwayFromEdges(e) ==
    LET g == e.image.foreground[1] IN
    /\ g.x_min >= Padding
    /\ (e.image.width - 1) - g.x_max >= Padding
    /\ g.y_min >= Padding
    /\ (e.image.height - 1) - g.y_max >= Padding
CropInsideImage(e) ==
    /\ 0 <= e.box[1].left /\ e.box[1].left < e.box[1].right
    /\ e.box[1].right <= e.image.width
    /\ 0 <= e.box[1].upper /\ e.box[1].upper < e.box[1].lower
    /\ e.box[1].lower <= e.image.height
CropContainsForeground(e) ==
    /\ LeftMargin(e) >= 0 /\ RightMargin(e) >= 0
    /\ TopMargin(e) >= 0 /\ BottomMargin(e) >= 0

\* C24: when the bounding box of the foreground is at least 50 pixels away from
\* every edge of the image, the region center_and_crop_image keeps reaches 50
\* pixels beyond the box on the left, on the right, above and below; in every
\* case the region lies inside the image and holds every foreground pixel.
C24_CropPadsEachSideEqually ==
    \A i \in CropIdx :
        LET e == trace[i] IN
        /\ AwayFromEdges(e) =>
            /\ LeftMargin(e) = Padding /\ RightMargin(e) = Padding
            /\ TopMargin(e) = Padding /\ BottomMargin(e) = Padding
        /\ CropInsideImage(e)
        /\ CropContainsForeground(e)

\* What the code does: away from the edges the region reaches 50 pixels beyond
\* the box on the left and above, and 49 on the right and below; it lies
\* inside the image and holds every foreground pixel.
C24_CropAsComputed ==
    \A i \in CropIdx :
        LET e == trace[i] IN
        /\ AwayFromEdges(e) =>
            /\ LeftMargin(e) = Padding /\ RightMargin(e) = Padding - 1
            /\ TopMargin(e) = Padding /\ BottomMargin(e) = Padding - 1
        /\ CropInsideImage(e)
        /\ CropContainsForeground(e)

\* An image whose foreground is away from every edge was cropped.
C24_CroppedAwayFromEdges ==
    \E i \in CropIdx : AwayFromEdges(trace[i])

\* The job holds a workspace: it has made one and has not yet left its finally
\* block.
Holding(w) ==
    /\ workers[w].pc \in {"preprocess", "generate", "upload", "finally"}
    /\ ~IsNone(workers[w].temp_dir)
IsUnder(q, d) == Len(q) >= Len(d) /\ SubSeq(q, 1, Len(d)) = d
\* The paths a step created, removed or rewrote.
Changed(f, g) == {q \in DOMAIN f \cup DOMAIN g : Object(f, q) # Object(g, q)}
\* No two jobs hold the same directory.
WorkspacesDistinct ==
    \A w, v \in Workers :
        (w # v /\ Holding(w) /\ Holding(v)) => workers[w].temp_dir # workers[v].temp_dir
\* The directory of a job that holds one is there, with the images the job
\* normalized until it has reconstructed and the asset until it has published.
WorkspaceKept ==
    \A w \in Workers :
        Holding(w) =>
            /\ Object(fs, workers[w].temp_dir[1]) = Some("dir")
            /\ workers[w].pc = "generate" =>
                \A k \in DOMAIN workers[w].preprocessed_images[1] :
                    workers[w].preprocessed_images[1][k] \in DOMAIN fs
            /\ workers[w].pc = "upload" =>
                workers[w].temp_dir[1] \o <<"model.glb">> \in DOMAIN fs
\* Every path the step changed lies in the workspace of the job that took the
\* step and in the workspace of no other job that holds one.
StepInsideOwnWorkspace ==
    \A q \in Changed(fs, fs') :
        \E w \in Workers :
            /\ workers'[w] # workers[w]
            /\ ~IsNone(workers'[w].temp_dir)
            /\ IsUnder(q, workers'[w].temp_dir[1])
            /\ \A v \in Workers \ {w} : Holding(v) => ~IsUnder(q, workers[v].temp_dir[1])

\* C26: in every interleaving of the jobs of one host, two of them with the
\* same job id included, the jobs that hold a workspace hold different
\* directories; every file a step creates, rewrites or removes (normalized
\* images, downloads, the asset, the directory itself at creation and at
\* cleanup) lies in the workspace of the job taking the step and in no other
\* held workspace; and the directory and files of a job stay until it is done
\* with them.
C26_WorkspacesIsolated ==
    [][StepInsideOwnWorkspace /\ WorkspacesDistinct' /\ WorkspaceKept']_vars

\* C26 witness: two jobs with the same job id hold a workspace at the same
\* time, in different directories; the first has built its asset and published
\* it and is about to clean up, the second has its own asset in its own
\* directory.
C26_Witness ==
    /\ workers[1].job_id = workers[2].job_id
    /\ workers[1].pc = "finally" /\ workers[2].pc = "upload"
    /\ Holding(1) /\ Holding(2)
    /\ workers[1].temp_dir # workers[2].temp_dir
    /\ workers[1].temp_dir[1] \o <<"model.glb">> \in DOMAIN fs
    /\ workers[2].temp_dir[1] \o <<"model.glb">> \in DOMAIN fs
    /\ bucket # EmptyDict

\* A job removed its workspace while another job with the same job id, in the
\* middle of its work, keeps its directory and its normalized image.
C26_CleanedUpBesideRunningJob ==
    /\ workers[1].job_id = workers[2].job_id
    /\ workers[1].pc = "done" /\ workers[1].cleanup = "removed"
    /\ workers[1].temp_dir[1] \notin DOMAIN fs
    /\ workers[2].pc = "generate"
    /\ workers[2].preprocessed_images[1][1] \in DOMAIN fs

====
